---- MODULE Spec2Model ----
(***************************************************************************)
(* Credit-risk analysis pipeline of Stock-Market-Analysis: classifier,     *)
(* Altman Z-Score, Merton model, per-model decisions, reconciliation and   *)
(* the orchestrator (RiskAnalyzer.run / analyze_multiple).                 *)
(*                                                                         *)
(* Conventions.                                                            *)
(*  - Text that the code inspects character by character (industry,        *)
(*    ticker) is a sequence of one-character strings, so that lower(),     *)
(*    upper(), strip() and the `in` substring test are computed.           *)
(*  - Text that the code only produces (messages, labels) is a string.     *)
(*  - Floats that the code rounds before use are fixed-point integers:     *)
(*    ratios, z_score, mu, sigma, DD in units of 10^-4, PD in units of     *)
(*    10^-6.  Thresholds are written in the same units (2.99 -> 29900).    *)
(*  - Python's None is the record None below, and NoneText where a text   *)
(*    is expected; an absent dictionary or index key is a key outside      *)
(*    DOMAIN.                                                              *)
(***************************************************************************)
EXTENDS Integers, Sequences, FiniteSets, TLC

None == [none |-> TRUE]

NoneText == <<"None">>

(***************************************************************************)
(* Text helpers (str.lower, str.upper, str.strip, `kw in s`)               *)
(***************************************************************************)
UpperChars == <<"A","B","C","D","E","F","G","H","I","J","K","L","M",
                "N","O","P","Q","R","S","T","U","V","W","X","Y","Z">>

LowerChars == <<"a","b","c","d","e","f","g","h","i","j","k","l","m",
                "n","o","p","q","r","s","t","u","v","w","x","y","z">>

LowerChar(c) ==
    IF \E i \in 1..Len(UpperChars) : UpperChars[i] = c
    THEN LowerChars[CHOOSE i \in 1..Len(UpperChars) : UpperChars[i] = c]
    ELSE c

UpperChar(c) ==
    IF \E i \in 1..Len(LowerChars) : LowerChars[i] = c
    THEN UpperChars[CHOOSE i \in 1..Len(LowerChars) : LowerChars[i] = c]
    ELSE c

\* str.lower()
Lower(s) == [i \in 1..Len(s) |-> LowerChar(s[i])]

\* str.upper()
Upper(s) == [i \in 1..Len(s) |-> UpperChar(s[i])]

\* str.strip(): drops leading and trailing whitespace
Strip(s) ==
    LET keep == {i \in 1..Len(s) : s[i] # " "}
    IN  IF keep = {} THEN <<>>
        ELSE LET lo == CHOOSE i \in keep : \A j \in keep : i <= j
                 hi == CHOOSE i \in keep : \A j \in keep : j <= i
             IN  SubSeq(s, lo, hi)

\* kw in s
Contains(s, kw) ==
    \E i \in 1..(Len(s) - Len(kw) + 1) : SubSeq(s, i, i + Len(kw) - 1) = kw

(***************************************************************************)
(* classifier.py                                                           *)
(***************************************************************************)
MANUFACTURING_KEYWORDS == {
    <<"m","a","n","u","f","a","c","t","u","r">>,
    <<"a","u","t","o">>,
    <<"a","e","r","o","s","p","a","c","e">>,
    <<"d","e","f","e","n","s","e">>,
    <<"s","t","e","e","l">>,
    <<"c","h","e","m","i","c","a","l">>,
    <<"s","e","m","i","c","o","n","d","u","c","t","o","r">>,
    <<"e","l","e","c","t","r","o","n","i","c">>,
    <<"m","a","c","h","i","n","e","r","y">>,
    <<"e","q","u","i","p","m","e","n","t">>,
    <<"t","e","x","t","i","l","e">>,
    <<"p","a","p","e","r">>,
    <<"p","a","c","k","a","g","i","n","g">>,
    <<"r","u","b","b","e","r">>,
    <<"p","l","a","s","t","i","c">>,
    <<"m","e","t","a","l">>,
    <<"m","i","n","i","n","g">>,
    <<"o","i","l">>,
    <<"g","a","s">>,
    <<"e","n","e","r","g","y">>,
    <<"p","h","a","r","m","a","c","e","u","t","i","c","a","l">>,
    <<"d","r","u","g">>,
    <<"f","o","o","d">>,
    <<"b","e","v","e","r","a","g","e">>,
    <<"t","o","b","a","c","c","o">>,
    <<"f","u","r","n","i","t","u","r","e">>,
    <<"a","p","p","l","i","a","n","c","e">>,
    <<"v","e","h","i","c","l","e">>,
    <<"a","i","r","c","r","a","f","t">>,
    <<"s","h","i","p">> }

FINANCIAL_KEYWORDS == {
    <<"b","a","n","k">>,
    <<"i","n","s","u","r","a","n","c","e">>,
    <<"f","i","n","a","n","c","i","a","l">>,
    <<"a","s","s","e","t"," ","m","a","n","a","g","e","m","e","n","t">>,
    <<"i","n","v","e","s","t","m","e","n","t">>,
    <<"c","r","e","d","i","t">>,
    <<"m","o","r","t","g","a","g","e">>,
    <<"r","e","i","t">>,
    <<"f","u","n","d">>,
    <<"b","r","o","k","e","r","a","g","e">>,
    <<"c","a","p","i","t","a","l"," ","m","a","r","k","e","t","s">> }

\* CompanyClassifier.__init__: (industry or "").lower()
ClassifierInit(industry, total_liabilities) ==
    [ industry          |-> Lower(IF industry = NoneText THEN <<>>
                                   ELSE industry),
      total_liabilities |-> total_liabilities,
      company_type      |-> "",
      model_version     |-> "" ]

IsManufacturing(self) ==
    \E kw \in MANUFACTURING_KEYWORDS : Contains(self.industry, kw)

IsFinancial(self) ==
    \E kw \in FINANCIAL_KEYWORDS : Contains(self.industry, kw)

\* Classify with the manufacturing test ahead of the financial test
ClassifyManufacturingFirst(self) ==
    IF self.industry = <<>>
    THEN [self EXCEPT !.company_type = "non_manufacturing",
                      !.model_version = "Z_double_prime"]
    ELSE IF IsManufacturing(self)
    THEN [self EXCEPT !.company_type = "manufacturing",
                      !.model_version = "Z"]
    ELSE IF IsFinancial(self)
    THEN [self EXCEPT !.company_type = "financial",
                      !.model_version = "Z_double_prime"]
    ELSE [self EXCEPT !.company_type = "non_manufacturing",
                      !.model_version = "Z_double_prime"]

\* CompanyClassifier.classify: the classifier object after the call
Classify(self) ==
    IF self.industry = <<>>
    THEN [self EXCEPT !.company_type = "non_manufacturing",
                      !.model_version = "Z_double_prime"]
    ELSE IF IsFinancial(self)
    THEN [self EXCEPT !.company_type = "financial",
                      !.model_version = "Z_double_prime"]
    ELSE IF IsManufacturing(self)
    THEN [self EXCEPT !.company_type = "manufacturing",
                      !.model_version = "Z"]
    ELSE [self EXCEPT !.company_type = "non_manufacturing",
                      !.model_version = "Z_double_prime"]

\* get_merton_applicability with `< 0` for `<= 0`
GetMertonApplicabilityStrict(self) ==
    IF self.total_liabilities < 0 THEN FALSE ELSE TRUE

\* CompanyClassifier.get_merton_applicability
GetMertonApplicability(self) ==
    IF self.total_liabilities <= 0 THEN FALSE ELSE TRUE

(***************************************************************************)
(* Exceptions: an operation that can raise returns Raise(..) or Return(..) *)
(***************************************************************************)
Raise(type, msg) == [raised |-> TRUE, exc |-> [type |-> type, msg |-> msg]]

Return(value) == [raised |-> FALSE, value |-> value]

(***************************************************************************)
(* Arithmetic helpers                                                      *)
(***************************************************************************)
Abs(x) == IF x < 0 THEN -x ELSE x

\* round(p / q) to the nearest integer, q # 0; an exact tie goes to the even
\* neighbour (Python's round on an exactly representable value).
RoundDiv(p, q) ==
    LET n == IF q < 0 THEN -p ELSE p
        d == Abs(q)
        f == n \div d
        r == n % d
    IN  IF 2 * r < d THEN f
        ELSE IF 2 * r > d THEN f + 1
        ELSE IF f % 2 = 0 THEN f ELSE f + 1

RECURSIVE SqrtSearch(_, _, _)
\* largest r in lo..hi with r * r <= v
SqrtSearch(v, lo, hi) ==
    IF lo >= hi THEN lo
    ELSE LET mid == (lo + hi + 1) \div 2
         IN  IF mid * mid <= v THEN SqrtSearch(v, mid, hi)
             ELSE SqrtSearch(v, lo, mid - 1)

\* sqrt(v) rounded to the nearest integer, 0 <= v < 2^31
RoundSqrt(v) ==
    LET r == SqrtSearch(v, 0, 46340)
    IN  IF v - r * r > r THEN r + 1 ELSE r

RECURSIVE SumSeq(_)
SumSeq(s) == IF s = <<>> THEN 0 ELSE Head(s) + SumSeq(Tail(s))

\* str(n) for a one-digit n
Digit(n) == <<"0", "1", "2", "3", "4", "5", "6", "7", "8", "9">>[n + 1]

(***************************************************************************)
(* base_fetcher.py / zscore_fetcher.py                                     *)
(*                                                                         *)
(* A stock is what one yf.Ticker(..) download returns: info (dictionary),  *)
(* balance_sheet and income_stmt (frames: row name -> yearly values, the   *)
(* most recent year last; the empty frame has no rows).  Amounts are       *)
(* integers.                                                               *)
(***************************************************************************)
\* bs.iloc[:, 0]: the most recent column
Latest(frame) == [r \in DOMAIN frame |-> frame[r][Len(frame[r])]]

\* BaseDataFetcher._validate_data: the fields f with data.get(f) is None.
\* Every value the fetchers store in data is a number (assigned from
\* float(..) or computed), so a field is None only if its key is absent.
Missing(data, required_fields) ==
    {f \in required_fields : f \notin DOMAIN data}

REQUIRED_FIELDS ==
    {"total_assets", "ebit", "market_cap", "total_liabilities", "sales"}

\* BaseDataFetcher.__init__: self.ticker
NormTicker(ticker) == Strip(Upper(ticker))

\* ZScoreDataFetcher._fetch_balance_sheet, after the empty-frame test
ZFetchBalanceSheet(latest) ==
    IF "Total Assets" \notin DOMAIN latest
    THEN Raise("KeyError", <<"'Total Assets'">>)
    ELSE IF "Total Liabilities Net Minority Interest" \notin DOMAIN latest
    THEN Raise("KeyError", <<"'Total Liabilities Net Minority Interest'">>)
    ELSE Return(
      [ total_assets      |-> latest["Total Assets"],
        total_liabilities |-> latest["Total Liabilities Net Minority Interest"],
        working_capital   |->
            IF "Working Capital" \in DOMAIN latest
            THEN latest["Working Capital"]
            ELSE IF "Current Assets" \in DOMAIN latest
                    /\ "Current Liabilities" \in DOMAIN latest
            THEN latest["Current Assets"] - latest["Current Liabilities"]
            ELSE 0,
        retained_earnings |->
            IF "Retained Earnings" \in DOMAIN latest
            THEN latest["Retained Earnings"]
            ELSE 0 ])

\* ZScoreDataFetcher._fetch_income_statement, after the empty-frame test
ZFetchIncomeStatement(self_ticker, latest) ==
    IF {"EBIT", "Operating Income", "Pretax Income"} \cap DOMAIN latest = {}
    THEN Raise("ValueError",
               <<"[", self_ticker, "] No se encontró EBIT ni alternativa válida.">>)
    ELSE IF {"Total Revenue", "Operating Revenue"} \cap DOMAIN latest = {}
    THEN Raise("ValueError",
               <<"[", self_ticker, "] No se encontró Total Revenue.">>)
    ELSE Return(
      [ ebit  |-> IF "EBIT" \in DOMAIN latest THEN latest["EBIT"]
                  ELSE IF "Operating Income" \in DOMAIN latest
                  THEN latest["Operating Income"]
                  ELSE latest["Pretax Income"],
        sales |-> IF "Total Revenue" \in DOMAIN latest
                  THEN latest["Total Revenue"]
                  ELSE latest["Operating Revenue"] ])

\* ZScoreDataFetcher(ticker).fetch_all(): the fetcher's company_name and
\* industry, and the data dictionary
ZFetchAll(ticker, stock) ==
    LET self_ticker == NormTicker(ticker)
        info        == stock.info
        fetcher     ==
          [ company_name |-> IF "longName" \in DOMAIN info
                             THEN info["longName"] ELSE self_ticker,
            industry     |-> IF "industry" \in DOMAIN info
                             THEN info["industry"] ELSE <<>> ]
        bs          == stock.balance_sheet
        inc         == stock.income_stmt
        b           == ZFetchBalanceSheet(Latest(bs))
        i           == ZFetchIncomeStatement(self_ticker, Latest(inc))
    IN  IF DOMAIN bs = {}
        THEN Raise("ValueError",
                   <<"[", self_ticker, "] No se encontró balance sheet.">>)
        ELSE IF b.raised THEN b
        ELSE IF DOMAIN inc = {}
        THEN Raise("ValueError",
                   <<"[", self_ticker, "] No se encontró income statement.">>)
        ELSE IF i.raised THEN i
        ELSE IF "marketCap" \notin DOMAIN info
        THEN Raise("TypeError",
                   <<"float() argument must be a string or a real number, not 'NoneType'">>)
        ELSE LET data ==
                   [ working_capital   |-> b.value.working_capital,
                     total_assets      |-> b.value.total_assets,
                     retained_earnings |-> b.value.retained_earnings,
                     ebit              |-> i.value.ebit,
                     market_cap        |-> info["marketCap"],
                     total_liabilities |-> b.value.total_liabilities,
                     sales             |-> i.value.sales ]
             IN  IF Missing(data, REQUIRED_FIELDS) # {}
                 THEN Raise("ValueError",
                            <<"[", self_ticker, "] Campos faltantes: ",
                              Missing(data, REQUIRED_FIELDS)>>)
                 ELSE Return([fetcher |-> fetcher, data |-> data])

(***************************************************************************)
(* merton_fetcher.py                                                       *)
(***************************************************************************)
MIN_YEARS_WARNING == 3
MIN_YEARS_ERROR   == 2

RECURSIVE PctChanges(_, _)
\* the loop of _calculate_mu_and_sigma from index i on (1-based: i >= 2);
\* a change is (curr - prev) / abs(prev), in units of 10^-4
PctChanges(assets, i) ==
    IF i > Len(assets) THEN <<>>
    ELSE LET prev == assets[i - 1]
             curr == assets[i]
         IN  IF prev = 0 THEN PctChanges(assets, i + 1)
             ELSE <<RoundDiv(10000 * (curr - prev), Abs(prev))>>
                  \o PctChanges(assets, i + 1)

\* np.mean
Mean(xs) == RoundDiv(SumSeq(xs), Len(xs))

\* np.std(xs) with numpy's default ddof=0
StdDdof0(xs) ==
    LET m  == Mean(xs)
        sq == [k \in 1..Len(xs) |-> (xs[k] - m) * (xs[k] - m)]
    IN  RoundSqrt(RoundDiv(SumSeq(sq), Len(xs)))

\* np.std(xs, ddof=1)
StdDdof1(xs) ==
    LET m  == Mean(xs)
        sq == [k \in 1..Len(xs) |-> (xs[k] - m) * (xs[k] - m)]
    IN  RoundSqrt(RoundDiv(SumSeq(sq), Len(xs) - 1))

\* MertonDataFetcher._calculate_mu_and_sigma
CalculateMuAndSigma(assets_history) ==
    LET pct_changes == PctChanges(assets_history, 2)
    IN  IF Len(pct_changes) < 1
        THEN Raise("ValueError",
                   <<"No hay suficientes variaciones para calcular μ y σ.">>)
        ELSE Return(
          [ mu    |-> Mean(pct_changes),
            sigma |-> IF Len(pct_changes) > 1 THEN StdDdof1(pct_changes)
                      ELSE Abs(pct_changes[1]) ])

\* MertonDataFetcher._fetch_risk_free_rate: never raises; 0.04 by default.
\* tnx is the info dictionary of "^TNX" (prices in units of 10^-2, so that
\* rate / 100 is in units of 10^-4), or the empty dictionary when the
\* download fails.
FetchRiskFreeRate(tnx) ==
    IF "regularMarketPrice" \in DOMAIN tnx /\ tnx["regularMarketPrice"] # 0
    THEN tnx["regularMarketPrice"]
    ELSE IF "previousClose" \in DOMAIN tnx /\ tnx["previousClose"] # 0
    THEN tnx["previousClose"]
    ELSE 400

\* fetch_all whose short-history warning uses `<=` for `<`
MertonFetchAllWarnInclusive(ticker, stock) ==
    LET self_ticker == NormTicker(ticker)
        bs          == stock.balance_sheet
        assets      == bs["Total Assets"]
        liab        == bs["Total Liabilities Net Minority Interest"]
        n_years     == Len(assets)
        ms          == CalculateMuAndSigma(assets)
    IN  IF DOMAIN bs = {}
        THEN Raise("ValueError",
                   <<"[", self_ticker, "] No se encontró balance sheet.">>)
        ELSE IF "Total Assets" \notin DOMAIN bs
        THEN Raise("KeyError", <<"'Total Assets'">>)
        ELSE IF "Total Liabilities Net Minority Interest" \notin DOMAIN bs
        THEN Raise("KeyError", <<"'Total Liabilities Net Minority Interest'">>)
        ELSE IF n_years < MIN_YEARS_ERROR
        THEN Raise("ValueError",
                   <<"[", self_ticker, "] Solo ", Digit(n_years),
                     " años disponibles. Mínimo requerido: ",
                     Digit(MIN_YEARS_ERROR), ".">>)
        ELSE IF ms.raised THEN ms
        ELSE Return(
          [ fetcher |-> [ n_years_used |-> n_years,
                          warned       |-> n_years <= MIN_YEARS_WARNING ],
            data    |-> [ V_A            |-> assets[Len(assets)],
                          D              |-> liab[Len(liab)],
                          mu             |-> ms.value.mu,
                          sigma          |-> ms.value.sigma,
                          risk_free_rate |-> FetchRiskFreeRate(stock.tnx),
                          T              |-> 1 ] ])

\* MertonDataFetcher(ticker).fetch_all(): n_years_used, whether the
\* short-history warning was issued, and the data dictionary
MertonFetchAll(ticker, stock) ==
    LET self_ticker == NormTicker(ticker)
        bs          == stock.balance_sheet
        assets      == bs["Total Assets"]
        liab        == bs["Total Liabilities Net Minority Interest"]
        n_years     == Len(assets)
        ms          == CalculateMuAndSigma(assets)
    IN  IF DOMAIN bs = {}
        THEN Raise("ValueError",
                   <<"[", self_ticker, "] No se encontró balance sheet.">>)
        ELSE IF "Total Assets" \notin DOMAIN bs
        THEN Raise("KeyError", <<"'Total Assets'">>)
        ELSE IF "Total Liabilities Net Minority Interest" \notin DOMAIN bs
        THEN Raise("KeyError", <<"'Total Liabilities Net Minority Interest'">>)
        ELSE IF n_years < MIN_YEARS_ERROR
        THEN Raise("ValueError",
                   <<"[", self_ticker, "] Solo ", Digit(n_years),
                     " años disponibles. Mínimo requerido: ",
                     Digit(MIN_YEARS_ERROR), ".">>)
        ELSE IF ms.raised THEN ms
        ELSE Return(
          [ fetcher |-> [ n_years_used |-> n_years,
                          warned       |-> n_years < MIN_YEARS_WARNING ],
            data    |-> [ V_A            |-> assets[Len(assets)],
                          D              |-> liab[Len(liab)],
                          mu             |-> ms.value.mu,
                          sigma          |-> ms.value.sigma,
                          risk_free_rate |-> FetchRiskFreeRate(stock.tnx),
                          T              |-> 1 ] ])

(***************************************************************************)
(* calculators.py                                                          *)
(***************************************************************************)
\* ZScoreCalculator.COEFFICIENTS, in units of 10^-2
COEFFICIENTS ==
    [ Z              |-> [x1 |-> 120, x2 |-> 140, x3 |-> 330, x4 |-> 60,
                          x5 |-> 100],
      Z_double_prime |-> [x1 |-> 656, x2 |-> 326, x3 |-> 672, x4 |-> 105,
                          x5 |-> 0] ]

\* 0.0 as a fraction: the calculators keep their full-precision attributes
\* (x1..x5, z_score, DD) as fractions num / den
Zero == [num |-> 0, den |-> 1]

\* BaseCalculator.get_results: fails until calculate() has stored a result
\* (self.result = {} is the function with the empty domain)
BaseCalculatorGetResults(self) ==
    IF DOMAIN self.result = {}
    THEN Raise("RuntimeError", <<"Debe llamar a calculate() primero.">>)
    ELSE Return(self.result)

\* ZScoreCalculator.__init__: rejects an unknown model_version
ZScoreCalculatorInit(data, model_version) ==
    IF model_version \notin DOMAIN COEFFICIENTS
    THEN Raise("ValueError", <<"Versión inválida: '", model_version, "'.">>)
    ELSE Return([ data          |-> data,
                  result        |-> <<>>,
                  model_version |-> model_version,
                  coefficients  |-> COEFFICIENTS[model_version],
                  x1 |-> Zero, x2 |-> Zero, x3 |-> Zero, x4 |-> Zero,
                  x5 |-> Zero,
                  z_score       |-> Zero ])

\* self.z_score summed from the ratios already rounded to 4 decimals
ZScoreFractionRounded(self) ==
    LET ta == self.data.total_assets
        tl == self.data.total_liabilities
        c  == self.coefficients
        s5 == IF self.model_version = "Z" THEN self.data.sales ELSE 0
    IN  [ num |-> c.x1 * RoundDiv(10000 * self.data.working_capital, ta)
                + c.x2 * RoundDiv(10000 * self.data.retained_earnings, ta)
                + c.x3 * RoundDiv(10000 * self.data.ebit, ta)
                + c.x4 * RoundDiv(10000 * self.data.market_cap, tl)
                + c.x5 * RoundDiv(10000 * s5, ta),
          den |-> 100 ]

\* self.z_score at full precision, as the fraction num / den of 10^-4 units:
\* c1*wc/ta + c2*re/ta + c3*ebit/ta + c4*mc/tl + c5*x5   (ta # 0, tl # 0)
ZScoreFraction(self) ==
    LET ta == self.data.total_assets
        tl == self.data.total_liabilities
        c  == self.coefficients
        s5 == IF self.model_version = "Z" THEN self.data.sales ELSE 0
    IN  [ num |-> 100 * ( ( c.x1 * self.data.working_capital
                          + c.x2 * self.data.retained_earnings
                          + c.x3 * self.data.ebit
                          + c.x5 * s5 ) * tl
                        + c.x4 * self.data.market_cap * ta ),
          den |-> ta * tl ]

\* ZScoreCalculator.calculate that tests only total_assets and takes X4 as
\* 0 when total_liabilities is 0
ZScoreCalculateAssetsOnly(self) ==
    LET ta == self.data.total_assets
        tl == self.data.total_liabilities
        s  == [self EXCEPT !.data.market_cap = IF tl = 0 THEN 0 ELSE @,
                           !.data.total_liabilities = IF tl = 0 THEN 1 ELSE @]
        z  == ZScoreFraction(s)
    IN  IF ta = 0 THEN Raise("ZeroDivisionError", <<"Total Assets es 0.">>)
        ELSE Return(
          [ model_version |-> self.model_version,
            x1      |-> RoundDiv(10000 * self.data.working_capital, ta),
            x2      |-> RoundDiv(10000 * self.data.retained_earnings, ta),
            x3      |-> RoundDiv(10000 * self.data.ebit, ta),
            x4      |-> RoundDiv(10000 * s.data.market_cap,
                                 s.data.total_liabilities),
            x5      |-> IF self.model_version = "Z"
                        THEN RoundDiv(10000 * self.data.sales, ta) ELSE 0,
            z_score |-> RoundDiv(z.num, z.den) ])

\* ZScoreCalculator.calculate: the value returned, or the exception
ZScoreCalculate(self) ==
    LET ta == self.data.total_assets
        tl == self.data.total_liabilities
        z  == ZScoreFraction(self)
    IN  IF ta = 0 THEN Raise("ZeroDivisionError", <<"Total Assets es 0.">>)
        ELSE IF tl = 0
        THEN Raise("ZeroDivisionError", <<"Total Liabilities es 0.">>)
        ELSE Return(
          [ model_version |-> self.model_version,
            x1      |-> RoundDiv(10000 * self.data.working_capital, ta),
            x2      |-> RoundDiv(10000 * self.data.retained_earnings, ta),
            x3      |-> RoundDiv(10000 * self.data.ebit, ta),
            x4      |-> RoundDiv(10000 * self.data.market_cap, tl),
            x5      |-> IF self.model_version = "Z"
                        THEN RoundDiv(10000 * self.data.sales, ta) ELSE 0,
            z_score |-> RoundDiv(z.num, z.den) ])

\* the ZScoreCalculator after calculate(): both tests come before the first
\* assignment, so a calculator whose calculate() raised is unchanged
ZScoreCalculated(self) ==
    LET ta == self.data.total_assets
        tl == self.data.total_liabilities
        r  == ZScoreCalculate(self)
    IN  IF r.raised THEN self
        ELSE [ self EXCEPT
                 !.x1 = [num |-> self.data.working_capital, den |-> ta],
                 !.x2 = [num |-> self.data.retained_earnings, den |-> ta],
                 !.x3 = [num |-> self.data.ebit, den |-> ta],
                 !.x4 = [num |-> self.data.market_cap, den |-> tl],
                 !.x5 = IF self.model_version = "Z"
                        THEN [num |-> self.data.sales, den |-> ta] ELSE Zero,
                 !.z_score = ZScoreFraction(self),
                 !.result = r.value ]

LN_TABLE ==
    (<<1, 1>> :> 0) @@
    (<<2, 1>> :> 69314718) @@
    (<<40, 38>> :> 5129329) @@
    (<<50, 40>> :> 22314355) @@
    (<<60, 54>> :> 10536052) @@
    (<<66, 33>> :> 69314718) @@
    (<<66, 60>> :> 9531018) @@
    (<<250, 250>> :> 0)

NORMAL_CDF_TABLE ==
    (<<-33741342, 4000>> :> 199465) @@
    (<<-29000000, 6000>> :> 314430) @@
    (<<-9000000, 6000>> :> 440382) @@
    (<<38062036, 2000>> :> 971486) @@
    (<<43750000, 5000>> :> 809213) @@
    (<<64822104, 5000>> :> 902588) @@
    (<<88378710, 5000>> :> 961434) @@
    (<<109629436, 6000>> :> 966162) @@
    (<<129629436, 6000>> :> 984633) @@
    (<<157629436, 2000>> :> 1000000)

\* math.log(V_A / D) in units of 10^-8, math.erf-based _normal_cdf in units
\* of 10^-6: the values of the two library functions at the arguments the
\* model reaches (LN_TABLE, NORMAL_CDF_TABLE).
Ln(V_A, D) == LN_TABLE[<<V_A, D>>]

\* _normal_cdf returning the upper tail 1 - Phi(x)
NormalCdfUpperTail(num, den) == 1000000 - NORMAL_CDF_TABLE[<<num, den>>]

\* MertonCalculator._normal_cdf at x = num / den (in units of 10^-4)
NormalCdf(num, den) == NORMAL_CDF_TABLE[<<num, den>>]

\* math.sqrt(T); the fetcher fixes T = 1.0
SqrtT(T) == 1

\* self.DD at full precision, as the fraction num / den of 10^-4 units:
\* [ln(V_A/D) + (mu - sigma^2/2)*T] / (sigma*sqrt(T)), both sides doubled.
\* mu and sigma are in units of 10^-4, the numerator in units of 10^-8.
MertonDDFraction(data) ==
    [ num |-> 2 * Ln(data.V_A, data.D)
              + (2 * 10000 * data.mu - data.sigma * data.sigma) * data.T,
      den |-> 2 * data.sigma * SqrtT(data.T) ]

\* MertonCalculator.__init__
MertonCalculatorInit(data) ==
    [data |-> data, result |-> <<>>, DD |-> Zero, PD |-> 0]

\* MertonCalculator.calculate that lets sigma = 0 through and reports the
\* at-the-money default DD = 0, PD = 0.5 for it
MertonCalculateDefaultSigma(data) ==
    LET dd  == MertonDDFraction(data)
        cdf == NormalCdf(dd.num, dd.den)
    IN  IF data.D <= 0
        THEN Raise("ValueError", <<"D (pasivos) debe ser mayor que 0.">>)
        ELSE IF data.V_A <= 0
        THEN Raise("ValueError", <<"V_A (activos) debe ser mayor que 0.">>)
        ELSE IF data.sigma < 0
        THEN Raise("ValueError", <<"σ debe ser mayor que 0.">>)
        ELSE Return(
          [ V_A    |-> data.V_A,
            D      |-> data.D,
            mu     |-> data.mu,
            sigma  |-> data.sigma,
            T      |-> data.T,
            DD     |-> IF data.sigma = 0 THEN 0 ELSE RoundDiv(dd.num, dd.den),
            PD     |-> IF data.sigma = 0 THEN 500000 ELSE 1000000 - cdf,
            PD_pct |-> IF data.sigma = 0 THEN 500000 ELSE 1000000 - cdf ])

\* MertonCalculator.calculate: the value returned, or the exception
MertonCalculate(data) ==
    LET dd  == MertonDDFraction(data)
        cdf == NormalCdf(dd.num, dd.den)
    IN  IF data.D <= 0
        THEN Raise("ValueError", <<"D (pasivos) debe ser mayor que 0.">>)
        ELSE IF data.V_A <= 0
        THEN Raise("ValueError", <<"V_A (activos) debe ser mayor que 0.">>)
        ELSE IF data.sigma <= 0
        THEN Raise("ValueError", <<"σ debe ser mayor que 0.">>)
        ELSE Return(
          [ V_A    |-> data.V_A,
            D      |-> data.D,
            mu     |-> data.mu,
            sigma  |-> data.sigma,
            T      |-> data.T,
            DD     |-> RoundDiv(dd.num, dd.den),
            PD     |-> 1000000 - cdf,
            PD_pct |-> 1000000 - cdf ])

\* the MertonCalculator after calculate(): the three tests come before the
\* first assignment, so a calculator whose calculate() raised is unchanged
MertonCalculated(self) ==
    LET r == MertonCalculate(self.data)
    IN  IF r.raised THEN self
        ELSE [ self EXCEPT !.DD = MertonDDFraction(self.data),
                           !.PD = r.value.PD,
                           !.result = r.value ]

(***************************************************************************)
(* decisions.py                                                            *)
(***************************************************************************)
APPROVED         == "APPROVED"
APPROVED_WARNING == "APPROVED WITH WARNING"
DENIED           == "DENIED"

ZONE_SAFE     == "SAFE"
ZONE_GREY     == "GREY ZONE"
ZONE_DISTRESS == "DISTRESS"

\* ZScoreDecision.THRESHOLDS, in units of 10^-4
THRESHOLDS ==
    [ Z              |-> [safe |-> 29900, distress |-> 18100],
      Z_double_prime |-> [safe |-> 26000, distress |-> 11000] ]

\* THRESHOLDS.get(model_version, THRESHOLDS["Z_double_prime"])
ThresholdsGet(model_version) ==
    IF model_version \in DOMAIN THRESHOLDS
    THEN THRESHOLDS[model_version]
    ELSE THRESHOLDS["Z_double_prime"]

\* ZScoreDecision.evaluate with `>=` for `>` on the safe threshold
ZScoreEvaluateInclusive(z_score, model_version) ==
    LET t     == ThresholdsGet(model_version)
        zd    == IF z_score >= t.safe
                 THEN [zone |-> ZONE_SAFE, decision |-> APPROVED]
                 ELSE IF z_score < t.distress
                 THEN [zone |-> ZONE_DISTRESS, decision |-> DENIED]
                 ELSE [zone |-> ZONE_GREY, decision |-> APPROVED_WARNING]
        label == IF model_version = "Z" THEN "Z-Score" ELSE "Z''-Score"
    IN  [ zone      |-> zd.zone,
          decision  |-> zd.decision,
          reasoning |-> [ label |-> label, value |-> z_score,
                          safe |-> t.safe, distress |-> t.distress,
                          zone |-> zd.zone ] ]

\* ZScoreDecision.evaluate -> get_summary().  The reasoning text embeds the
\* label, the score, both thresholds and the zone; it is kept as the record
\* of the embedded values.
ZScoreEvaluate(z_score, model_version) ==
    LET t     == ThresholdsGet(model_version)
        zd    == IF z_score > t.safe
                 THEN [zone |-> ZONE_SAFE, decision |-> APPROVED]
                 ELSE IF z_score < t.distress
                 THEN [zone |-> ZONE_DISTRESS, decision |-> DENIED]
                 ELSE [zone |-> ZONE_GREY, decision |-> APPROVED_WARNING]
        label == IF model_version = "Z" THEN "Z-Score" ELSE "Z''-Score"
    IN  [ zone      |-> zd.zone,
          decision  |-> zd.decision,
          reasoning |-> [ label |-> label, value |-> z_score,
                          safe |-> t.safe, distress |-> t.distress,
                          zone |-> zd.zone ] ]

\* MertonDecision.PD_SAFE / PD_DISTRESS, in units of 10^-6
PD_SAFE     == 20000
PD_DISTRESS == 50000

\* MertonDecision.evaluate with `<=` for `<` on PD_SAFE
MertonEvaluateInclusive(PD, DD) ==
    LET zd == IF PD <= PD_SAFE
              THEN [zone |-> ZONE_SAFE, decision |-> APPROVED]
              ELSE IF PD > PD_DISTRESS
              THEN [zone |-> ZONE_DISTRESS, decision |-> DENIED]
              ELSE [zone |-> ZONE_GREY, decision |-> APPROVED_WARNING]
    IN  [ zone      |-> zd.zone,
          decision  |-> zd.decision,
          reasoning |-> [ label |-> "PD", value |-> PD, DD |-> DD,
                          safe |-> PD_SAFE, distress |-> PD_DISTRESS,
                          zone |-> zd.zone ] ]

\* MertonDecision.evaluate whose distress branch sets the grey decision
MertonEvaluateWrongDecision(PD, DD) ==
    LET zd == IF PD < PD_SAFE
              THEN [zone |-> ZONE_SAFE, decision |-> APPROVED]
              ELSE IF PD > PD_DISTRESS
              THEN [zone |-> ZONE_DISTRESS, decision |-> APPROVED_WARNING]
              ELSE [zone |-> ZONE_GREY, decision |-> APPROVED_WARNING]
    IN  [ zone      |-> zd.zone,
          decision  |-> zd.decision,
          reasoning |-> [ label |-> "PD", value |-> PD, DD |-> DD,
                          safe |-> PD_SAFE, distress |-> PD_DISTRESS,
                          zone |-> zd.zone ] ]

\* MertonDecision.evaluate -> get_summary()
MertonEvaluate(PD, DD) ==
    LET zd == IF PD < PD_SAFE
              THEN [zone |-> ZONE_SAFE, decision |-> APPROVED]
              ELSE IF PD > PD_DISTRESS
              THEN [zone |-> ZONE_DISTRESS, decision |-> DENIED]
              ELSE [zone |-> ZONE_GREY, decision |-> APPROVED_WARNING]
    IN  [ zone      |-> zd.zone,
          decision  |-> zd.decision,
          reasoning |-> [ label |-> "PD", value |-> PD, DD |-> DD,
                          safe |-> PD_SAFE, distress |-> PD_DISTRESS,
                          zone |-> zd.zone ] ]

(***************************************************************************)
(* risk_analyzer.py: RiskAnalyzer._combine_decisions                       *)
(***************************************************************************)
\* _combine_decisions with `"APPROVED" in decisions` for
\* `decisions == {"APPROVED"}`
CombineDecisionsAnyApproved(z_dec, merton_dec) ==
    IF merton_dec = None
    THEN [ decision |-> z_dec.decision,
           basis    |-> <<"Z-Score únicamente (Merton no aplicable)">> ]
    ELSE LET decisions == {z_dec.decision, merton_dec.decision}
             final     == IF DENIED \in decisions THEN DENIED
                          ELSE IF APPROVED \in decisions THEN APPROVED
                          ELSE APPROVED_WARNING
         IN  [ decision |-> final,
               basis    |-> <<"Z-Score: ", z_dec.decision,
                              " | Merton: ", merton_dec.decision>> ]

\* _combine_decisions that lets Merton only veto: the Z-Score decision
\* stands unless Merton denies
CombineDecisionsMertonVeto(z_dec, merton_dec) ==
    IF merton_dec = None
    THEN [ decision |-> z_dec.decision,
           basis    |-> <<"Z-Score únicamente (Merton no aplicable)">> ]
    ELSE LET final == IF merton_dec.decision = DENIED THEN DENIED
                      ELSE z_dec.decision
         IN  [ decision |-> final,
               basis    |-> <<"Z-Score: ", z_dec.decision,
                              " | Merton: ", merton_dec.decision>> ]

\* _combine_decisions that, without Merton, downgrades to a warning
CombineDecisionsWarnAlone(z_dec, merton_dec) ==
    IF merton_dec = None
    THEN [ decision |-> IF z_dec.decision = APPROVED THEN APPROVED_WARNING
                        ELSE z_dec.decision,
           basis    |-> <<"Z-Score únicamente (Merton no aplicable)">> ]
    ELSE LET decisions == {z_dec.decision, merton_dec.decision}
             final     == IF DENIED \in decisions THEN DENIED
                          ELSE IF decisions = {APPROVED} THEN APPROVED
                          ELSE APPROVED_WARNING
         IN  [ decision |-> final,
               basis    |-> <<"Z-Score: ", z_dec.decision,
                              " | Merton: ", merton_dec.decision>> ]

CombineDecisions(z_dec, merton_dec) ==
    IF merton_dec = None
    THEN [ decision |-> z_dec.decision,
           basis    |-> <<"Z-Score únicamente (Merton no aplicable)">> ]
    ELSE LET decisions == {z_dec.decision, merton_dec.decision}
             final     == IF DENIED \in decisions THEN DENIED
                          ELSE IF decisions = {APPROVED} THEN APPROVED
                          ELSE APPROVED_WARNING
         IN  [ decision |-> final,
               basis    |-> <<"Z-Score: ", z_dec.decision,
                              " | Merton: ", merton_dec.decision>> ]

(***************************************************************************)
(* Environment: the ticker symbols a user may type, and sample provider    *)
(* data.  A world is what the two downloads of one analysis return:        *)
(* z_stock to ZScoreDataFetcher, m_stock to MertonDataFetcher (with the    *)
(* "^TNX" quote).  The samples are chosen so that every fractional asset   *)
(* change, their mean and their standard deviation are whole multiples of  *)
(* 10^-4.                                                                  *)
(***************************************************************************)
MaxBatch == 2

Tickers == { <<"F">>, <<" ","k","o">> }

Worlds == <<
  [ z_stock |-> [ info          |-> ("longName" :> "Ford Motor Company") @@
                                   ("industry" :> <<"A","u","t","o"," ","M","a","n","u","f","a","c","t","u","r","e","r","s">>) @@
                                   ("marketCap" :> 100),
                  balance_sheet |-> ("Total Assets" :> <<50, 50, 55, 66>>) @@
                                   ("Total Liabilities Net Minority Interest" :> <<30, 30, 33, 33>>) @@
                                   ("Working Capital" :> <<15, 16, 18, 20>>) @@
                                   ("Retained Earnings" :> <<25, 26, 28, 30>>),
                  income_stmt   |-> ("EBIT" :> <<8, 10>>) @@
                                   ("Total Revenue" :> <<50, 60>>) ],
    m_stock |-> [ balance_sheet |-> ("Total Assets" :> <<50, 50, 55, 66>>) @@
                                   ("Total Liabilities Net Minority Interest" :> <<30, 30, 33, 33>>) @@
                                   ("Working Capital" :> <<15, 16, 18, 20>>) @@
                                   ("Retained Earnings" :> <<25, 26, 28, 30>>),
                  tnx           |-> ("regularMarketPrice" :> 425) ] ],
  [ z_stock |-> [ info          |-> ("longName" :> "Acme Software") @@
                                   ("industry" :> <<"S","o","f","t","w","a","r","e"," ","-"," ","A","p","p","l","i","c","a","t","i","o","n">>) @@
                                   ("marketCap" :> 20),
                  balance_sheet |-> ("Total Assets" :> <<40, 50>>) @@
                                   ("Total Liabilities Net Minority Interest" :> <<35, 40>>) @@
                                   ("Current Assets" :> <<12, 15>>) @@
                                   ("Current Liabilities" :> <<9, 10>>) @@
                                   ("Retained Earnings" :> <<4, 5>>),
                  income_stmt   |-> ("Operating Income" :> <<1, 2>>) @@
                                   ("Operating Revenue" :> <<9, 10>>) ],
    m_stock |-> [ balance_sheet |-> ("Total Assets" :> <<40, 50>>) @@
                                   ("Total Liabilities Net Minority Interest" :> <<35, 40>>) @@
                                   ("Current Assets" :> <<12, 15>>) @@
                                   ("Current Liabilities" :> <<9, 10>>) @@
                                   ("Retained Earnings" :> <<4, 5>>),
                  tnx           |-> ("previousClose" :> 410) ] ],
  [ z_stock |-> [ info          |-> ("longName" :> "Old Steel") @@
                                   ("industry" :> <<"S","t","e","e","l">>) @@
                                   ("marketCap" :> 5),
                  balance_sheet |-> ("Total Assets" :> <<50, 40>>) @@
                                   ("Total Liabilities Net Minority Interest" :> <<36, 38>>) @@
                                   ("Working Capital" :> <<-2, -4>>) @@
                                   ("Retained Earnings" :> <<-8, -10>>),
                  income_stmt   |-> ("EBIT" :> <<-1, -2>>) @@
                                   ("Total Revenue" :> <<25, 20>>) ],
    m_stock |-> [ balance_sheet |-> ("Total Assets" :> <<50, 40>>) @@
                                   ("Total Liabilities Net Minority Interest" :> <<36, 38>>) @@
                                   ("Working Capital" :> <<-2, -4>>) @@
                                   ("Retained Earnings" :> <<-8, -10>>),
                  tnx           |-> <<>> ] ],
  [ z_stock |-> [ info          |-> ("longName" :> "First Bank") @@
                                   ("industry" :> <<"B","a","n","k","s"," ","-"," ","R","e","g","i","o","n","a","l">>) @@
                                   ("marketCap" :> 200),
                  balance_sheet |-> ("Total Assets" :> <<48, 60>>) @@
                                   ("Total Liabilities Net Minority Interest" :> <<50, 54>>),
                  income_stmt   |-> ("Pretax Income" :> <<2, 3>>) @@
                                   ("Total Revenue" :> <<9, 10>>) ],
    m_stock |-> [ balance_sheet |-> ("Total Assets" :> <<48, 60>>) @@
                                   ("Total Liabilities Net Minority Interest" :> <<50, 54>>),
                  tnx           |-> <<>> ] ],
  [ z_stock |-> [ info          |-> ("longName" :> "Shop") @@
                                   ("industry" :> <<"I","n","t","e","r","n","e","t"," ","R","e","t","a","i","l">>) @@
                                   ("marketCap" :> 10),
                  balance_sheet |-> ("Total Assets" :> <<20, 25>>) @@
                                   ("Total Liabilities Net Minority Interest" :> <<-4, -5>>) @@
                                   ("Working Capital" :> <<4, 5>>) @@
                                   ("Retained Earnings" :> <<4, 5>>),
                  income_stmt   |-> ("EBIT" :> <<4, 5>>) @@
                                   ("Total Revenue" :> <<9, 10>>) ],
    m_stock |-> [ balance_sheet |-> ("Total Assets" :> <<20, 25>>) @@
                                   ("Total Liabilities Net Minority Interest" :> <<-4, -5>>) @@
                                   ("Working Capital" :> <<4, 5>>) @@
                                   ("Retained Earnings" :> <<4, 5>>),
                  tnx           |-> <<>> ] ],
  [ z_stock |-> [ info          |-> ("longName" :> "Parts") @@
                                   ("industry" :> <<"A","u","t","o"," ","P","a","r","t","s">>) @@
                                   ("marketCap" :> 10),
                  balance_sheet |-> ("Total Assets" :> <<20, 25>>) @@
                                   ("Total Liabilities Net Minority Interest" :> <<0, 0>>) @@
                                   ("Working Capital" :> <<4, 5>>) @@
                                   ("Retained Earnings" :> <<4, 5>>),
                  income_stmt   |-> ("EBIT" :> <<4, 5>>) @@
                                   ("Total Revenue" :> <<9, 10>>) ],
    m_stock |-> [ balance_sheet |-> ("Total Assets" :> <<20, 25>>) @@
                                   ("Total Liabilities Net Minority Interest" :> <<0, 0>>) @@
                                   ("Working Capital" :> <<4, 5>>) @@
                                   ("Retained Earnings" :> <<4, 5>>),
                  tnx           |-> <<>> ] ],
  [ z_stock |-> [ info          |-> ("longName" :> "Shell Co") @@
                                   ("industry" :> <<"S","h","e","l","l"," ","C","o","m","p","a","n","i","e","s">>) @@
                                   ("marketCap" :> 1),
                  balance_sheet |-> ("Total Assets" :> <<0, 0>>) @@
                                   ("Total Liabilities Net Minority Interest" :> <<5, 5>>) @@
                                   ("Working Capital" :> <<0, 0>>) @@
                                   ("Retained Earnings" :> <<0, 0>>),
                  income_stmt   |-> ("EBIT" :> <<0, 0>>) @@
                                   ("Total Revenue" :> <<0, 0>>) ],
    m_stock |-> [ balance_sheet |-> ("Total Assets" :> <<0, 0>>) @@
                                   ("Total Liabilities Net Minority Interest" :> <<5, 5>>) @@
                                   ("Working Capital" :> <<0, 0>>) @@
                                   ("Retained Earnings" :> <<0, 0>>),
                  tnx           |-> <<>> ] ],
  [ z_stock |-> [ info          |-> ("longName" :> "Ghost") @@
                                   ("industry" :> <<"O","i","l"," ","&"," ","G","a","s">>) @@
                                   ("marketCap" :> 10),
                  balance_sheet |-> <<>>,
                  income_stmt   |-> ("EBIT" :> <<1>>) @@
                                   ("Total Revenue" :> <<2>>) ],
    m_stock |-> [ balance_sheet |-> <<>>,
                  tnx           |-> <<>> ] ],
  [ z_stock |-> [ info          |-> ("longName" :> "Nocap") @@
                                   ("industry" :> <<"D","r","u","g"," ","M","a","n","u","f","a","c","t","u","r","e","r","s">>),
                  balance_sheet |-> ("Total Assets" :> <<20, 25>>) @@
                                   ("Total Liabilities Net Minority Interest" :> <<10, 10>>) @@
                                   ("Working Capital" :> <<4, 5>>) @@
                                   ("Retained Earnings" :> <<4, 5>>),
                  income_stmt   |-> ("EBIT" :> <<4, 5>>) @@
                                   ("Total Revenue" :> <<9, 10>>) ],
    m_stock |-> [ balance_sheet |-> ("Total Assets" :> <<20, 25>>) @@
                                   ("Total Liabilities Net Minority Interest" :> <<10, 10>>) @@
                                   ("Working Capital" :> <<4, 5>>) @@
                                   ("Retained Earnings" :> <<4, 5>>),
                  tnx           |-> <<>> ] ],
  [ z_stock |-> [ info          |-> ("longName" :> "Steady") @@
                                   ("industry" :> <<"P","a","c","k","a","g","e","d"," ","F","o","o","d","s">>) @@
                                   ("marketCap" :> 30),
                  balance_sheet |-> ("Total Assets" :> <<10, 20, 40>>) @@
                                   ("Total Liabilities Net Minority Interest" :> <<10, 15, 20>>) @@
                                   ("Working Capital" :> <<2, 4, 8>>) @@
                                   ("Retained Earnings" :> <<2, 4, 8>>),
                  income_stmt   |-> ("EBIT" :> <<2, 4>>) @@
                                   ("Total Revenue" :> <<20, 40>>) ],
    m_stock |-> [ balance_sheet |-> ("Total Assets" :> <<10, 20, 40>>) @@
                                   ("Total Liabilities Net Minority Interest" :> <<10, 15, 20>>) @@
                                   ("Working Capital" :> <<2, 4, 8>>) @@
                                   ("Retained Earnings" :> <<2, 4, 8>>),
                  tnx           |-> <<>> ] ],
  [ z_stock |-> [ info          |-> ("longName" :> "Flaky") @@
                                   ("industry" :> <<"S","e","m","i","c","o","n","d","u","c","t","o","r","s">>) @@
                                   ("marketCap" :> 60),
                  balance_sheet |-> ("Total Assets" :> <<40, 50>>) @@
                                   ("Total Liabilities Net Minority Interest" :> <<20, 20>>) @@
                                   ("Working Capital" :> <<10, 10>>) @@
                                   ("Retained Earnings" :> <<10, 10>>),
                  income_stmt   |-> ("EBIT" :> <<5, 5>>) @@
                                   ("Total Revenue" :> <<40, 50>>) ],
    m_stock |-> [ balance_sheet |-> <<>>,
                  tnx           |-> <<>> ] ],
  [ z_stock |-> [ info          |-> ("longName" :> "Newco") @@
                                   ("industry" :> <<"C","r","e","d","i","t"," ","S","e","r","v","i","c","e","s">>) @@
                                   ("marketCap" :> 60),
                  balance_sheet |-> ("Total Assets" :> <<50>>) @@
                                   ("Total Liabilities Net Minority Interest" :> <<20>>) @@
                                   ("Working Capital" :> <<10>>) @@
                                   ("Retained Earnings" :> <<10>>),
                  income_stmt   |-> ("EBIT" :> <<5>>) @@
                                   ("Total Revenue" :> <<50>>) ],
    m_stock |-> [ balance_sheet |-> ("Total Assets" :> <<50>>) @@
                                   ("Total Liabilities Net Minority Interest" :> <<20>>) @@
                                   ("Working Capital" :> <<10>>) @@
                                   ("Retained Earnings" :> <<10>>),
                  tnx           |-> <<>> ] ],
  [ z_stock |-> [ info          |-> ("marketCap" :> 40),
                  balance_sheet |-> ("Total Assets" :> <<50, 50, 55, 66>>) @@
                                   ("Total Liabilities Net Minority Interest" :> <<40, 40, 44, 60>>) @@
                                   ("Working Capital" :> <<5, 5, 5, 6>>) @@
                                   ("Retained Earnings" :> <<5, 5, 5, 6>>),
                  income_stmt   |-> ("EBIT" :> <<3, 3>>) @@
                                   ("Total Revenue" :> <<30, 33>>) ],
    m_stock |-> [ balance_sheet |-> ("Total Assets" :> <<50, 50, 55, 66>>) @@
                                   ("Total Liabilities Net Minority Interest" :> <<40, 40, 44, 60>>) @@
                                   ("Working Capital" :> <<5, 5, 5, 6>>) @@
                                   ("Retained Earnings" :> <<5, 5, 5, 6>>),
                  tnx           |-> <<>> ] ],
  [ z_stock |-> [ info          |-> ("longName" :> "Fresh") @@
                                   ("industry" :> <<" ","A","u","t","o"," ","I","n","s","u","r","a","n","c","e"," ">>) @@
                                   ("marketCap" :> 40),
                  balance_sheet |-> ("Total Assets" :> <<0, 50>>) @@
                                   ("Total Liabilities Net Minority Interest" :> <<0, 20>>) @@
                                   ("Working Capital" :> <<0, 10>>) @@
                                   ("Retained Earnings" :> <<0, 10>>),
                  income_stmt   |-> ("EBIT" :> <<5>>) @@
                                   ("Total Revenue" :> <<50>>) ],
    m_stock |-> [ balance_sheet |-> ("Total Assets" :> <<0, 50>>) @@
                                   ("Total Liabilities Net Minority Interest" :> <<0, 20>>) @@
                                   ("Working Capital" :> <<0, 10>>) @@
                                   ("Retained Earnings" :> <<0, 10>>),
                  tnx           |-> <<>> ] ],
  [ z_stock |-> [ info          |-> ("longName" :> "Edge") @@
                                   ("industry" :> <<"S","o","f","t","w","a","r","e">>) @@
                                   ("marketCap" :> 1),
                  balance_sheet |-> ("Total Assets" :> <<200, 250>>) @@
                                   ("Total Liabilities Net Minority Interest" :> <<250, 250>>) @@
                                   ("Working Capital" :> <<70, 77>>) @@
                                   ("Retained Earnings" :> <<38, 40>>),
                  income_stmt   |-> ("EBIT" :> <<1, 2>>) @@
                                   ("Total Revenue" :> <<280, 300>>) ],
    m_stock |-> [ balance_sheet |-> ("Total Assets" :> <<200, 250>>) @@
                                   ("Total Liabilities Net Minority Interest" :> <<250, 250>>) @@
                                   ("Working Capital" :> <<70, 77>>) @@
                                   ("Retained Earnings" :> <<38, 40>>),
                  tnx           |-> <<>> ] ],
  [ z_stock |-> [ info          |-> ("longName" :> "Drift") @@
                                   ("industry" :> <<"S","o","f","t","w","a","r","e">>) @@
                                   ("marketCap" :> 20),
                  balance_sheet |-> ("Total Assets" :> <<40, 50>>) @@
                                   ("Total Liabilities Net Minority Interest" :> <<35, 40>>) @@
                                   ("Working Capital" :> <<12, 15>>) @@
                                   ("Retained Earnings" :> <<4, 5>>),
                  income_stmt   |-> ("EBIT" :> <<1, 2>>) @@
                                   ("Total Revenue" :> <<9, 10>>) ],
    m_stock |-> [ balance_sheet |-> ("Total Assets" :> <<40, 50>>) @@
                                   ("Total Liabilities Net Minority Interest" :> <<35, 0>>) @@
                                   ("Working Capital" :> <<12, 15>>) @@
                                   ("Retained Earnings" :> <<4, 5>>),
                  tnx           |-> <<>> ] ] >>

\* inputs of the direct calls
Radius == 1

Industries == {
    NoneText,
    <<>>,
    <<" "," "," ">>,
    <<"A","u","t","o"," ","I","n","s","u","r","a","n","c","e">>,
    <<"A","U","T","O"," ","M","A","N","U","F","A","C","T","U","R","E","R","S">>,
    <<"B","a","n","k","s"," ","-"," ","R","e","g","i","o","n","a","l">>,
    <<"S","o","f","t","w","a","r","e">>,
    <<" ","s","t","e","e","l"," ">>,
    <<"A","s","s","e","t"," ","M","a","n","a","g","e","m","e","n","t">>,
    <<"C","a","p","i","t","a","l"," ","M","a","r","k","e","t","s">>,
    <<"O","i","l"," ","&"," ","G","a","s">>,
    <<"R","e","f","u","n","d","s">>,
    <<"A","i","r","l","i","n","e","s">>,
    <<"P","a","c","k","a","g","e","d"," ","F","o","o","d","s">> }

Near(t) == (t - Radius)..(t + Radius)

Scores ==
    UNION {Near(THRESHOLDS[v].safe) \cup Near(THRESHOLDS[v].distress) :
           v \in DOMAIN THRESHOLDS} \cup {-561, 42273}

PDs == Near(PD_SAFE) \cup Near(PD_DISTRESS) \cup {0, 1000000}

DDs == {-1500, 78815}

Liabilities == {-5, 0, 33}

\* model versions a caller may pass; "Z_prime" is not a known one
Variants == {"Z", "Z_double_prime", "Z_prime"}

\* asset histories (self.assets_history, oldest first) whose changes, mean
\* and standard deviation are whole multiples of 10^-4
Histories ==
    { <<>>, <<50>>, <<0, 50>>, <<0, 0>>, <<40, 50>>, <<50, 40>>,
      <<-20, -25>>, <<10, 20, 40>>, <<20, 10, 5>>, <<50, 50, 55, 66>>,
      <<0, 50, 50, 55, 66>>, <<10, 0, 5, 5, 10>>, <<10, 10, 10, 10, 20>> }

\* the data dictionaries handed to MertonCalculator (mu, sigma in units of
\* 10^-4)
MertonInputs ==
    [ V_A : {-1, 0, 1, 2}, D : {-5, 0, 1}, mu : {-1000, 0},
      sigma : {-3000, 0, 3000}, T : {1} ]
    \cup { [V_A |-> 66, D |-> 33, mu |-> 1000, sigma |-> 1000, T |-> 1],
           [V_A |-> 50, D |-> 40, mu |-> 2500, sigma |-> 2500, T |-> 1] }

\* the data dictionaries handed to ZScoreCalculator
Facts ==
    [ working_capital   : {-4, 20},
      total_assets      : {0, 40, 66},
      retained_earnings : {30},
      ebit              : {-2, 10},
      market_cap        : {5, 100},
      total_liabilities : {-5, 0, 33},
      sales             : {0, 60} ]

(***************************************************************************)
(* State                                                                   *)
(***************************************************************************)
VARIABLES
    tickers,            \* the list given to main / analyze_multiple
    mode,               \* "batch": analyze_multiple; "single": main's
                        \* [RiskAnalyzer(tickers[0]).run()]
    world,              \* what the downloads return, per ticker started
                        \* (index into Worlds)
    all_results,        \* analyze_multiple: all_results
    pc,                 \* position in analyze_multiple / run
    self,               \* the RiskAnalyzer of the current ticker
    z_fetcher, z_data, classifier, z_results, z_dec,
    merton_applicable, m_fetcher, m_data, merton_results, merton_dec,
                        \* locals of run
    exc,                \* the exception in flight, or None
    stages,             \* stages run() has completed for the current ticker
    call                \* the last direct call of a pure stage:
                        \* [op, args, ret]

locals == <<z_fetcher, z_data, classifier, z_results, z_dec,
            merton_applicable, m_fetcher, m_data, merton_results, merton_dec>>

batch == <<tickers, mode, world, all_results>>

unit == <<call>>

vars == <<tickers, mode, world, all_results, pc, self, z_fetcher, z_data,
          classifier, z_results, z_dec, merton_applicable, m_fetcher, m_data,
          merton_results, merton_dec, exc, stages, call>>

(***************************************************************************)
(* risk_analyzer.py: RiskAnalyzer.run, one action per stage                *)
(***************************************************************************)
\* the ticker being analysed: tickers[len(all_results)]
Current == tickers[Len(all_results) + 1]

\* the downloads of the current ticker
Stock == Worlds[world[Len(world)]]

\* RiskAnalyzer.get_results: fails until run() has stored its results
RiskAnalyzerGetResults(analyzer) ==
    IF DOMAIN analyzer.results = {}
    THEN Raise("RuntimeError", <<"Debe llamar a run() primero.">>)
    ELSE Return(analyzer.results)

\* a stage failure that run() catches and re-raises as a generic error
RaisedReplaced(e) ==
    /\ exc' = [type |-> "RuntimeError", msg |-> <<"Análisis fallido.">>]
    /\ pc' = "raised"

\* a stage raises: the exception leaves run()
Raised(e) ==
    /\ exc' = e
    /\ pc' = "raised"

\* for ticker in tickers: analyzer = RiskAnalyzer(ticker); analyzer.run()
\* up to the first download.  The environment fixes what the provider
\* returns for this ticker.
Begin ==
    /\ pc = "loop"
    /\ Len(all_results) < Len(tickers)
    /\ \E w \in 1..Len(Worlds) : world' = Append(world, w)
    /\ self' = [ticker |-> NormTicker(Current), results |-> <<>>]
    /\ z_fetcher' = None /\ z_data' = None /\ classifier' = None
    /\ z_results' = None /\ z_dec' = None /\ merton_applicable' = FALSE
    /\ m_fetcher' = None /\ m_data' = None
    /\ merton_results' = None /\ merton_dec' = None
    /\ stages' = <<>>
    /\ pc' = "fetch_z"
    /\ UNCHANGED <<tickers, mode, all_results, exc, unit>>

\* PASO 1: z_fetcher.fetch_all()
FetchZ ==
    /\ pc = "fetch_z"
    /\ LET r == ZFetchAll(self.ticker, Stock.z_stock)
       IN  IF r.raised
           THEN Raised(r.exc) /\ UNCHANGED <<z_fetcher, z_data>>
           ELSE /\ z_fetcher' = r.value.fetcher
                /\ z_data' = r.value.data
                /\ pc' = "classify"
                /\ exc' = exc
    /\ UNCHANGED <<batch, self, classifier, z_results, z_dec,
                   merton_applicable, m_fetcher, m_data, merton_results,
                   merton_dec, stages, unit>>

\* PASO 2: CompanyClassifier(..).classify(), get_model_version()
ClassifyStage ==
    /\ pc = "classify"
    /\ classifier' = Classify(ClassifierInit(z_fetcher.industry,
                                             z_data.total_liabilities))
    /\ stages' = Append(stages, "Classifier")
    /\ pc' = "z_calc"
    /\ UNCHANGED <<batch, self, z_fetcher, z_data, z_results, z_dec,
                   merton_applicable, m_fetcher, m_data, merton_results,
                   merton_dec, exc, unit>>

\* PASO 3: ZScoreCalculator(z_data, model_version).calculate()
ZScoreStage ==
    /\ pc = "z_calc"
    /\ LET c == ZScoreCalculatorInit(z_data, classifier.model_version)
           r == IF c.raised THEN c ELSE ZScoreCalculate(c.value)
       IN  IF r.raised
           THEN Raised(r.exc) /\ UNCHANGED <<z_results, stages>>
           ELSE /\ z_results' = r.value
                /\ stages' = Append(stages, "ZScoreEngine")
                /\ pc' = "z_decide"
                /\ exc' = exc
    /\ UNCHANGED <<batch, self, z_fetcher, z_data, classifier, z_dec,
                   merton_applicable, m_fetcher, m_data, merton_results,
                   merton_dec, unit>>

\* ZDecisionStage that hands the calculator's unrounded z_score attribute to
\* ZScoreDecision: the score is compared at full precision (above the safe
\* threshold iff its ceiling is, below the distress one iff its floor is)
ZDecisionStageFullPrecision ==
    /\ pc = "z_decide"
    /\ LET f  == ZScoreFraction(
                     ZScoreCalculatorInit(z_data,
                                          classifier.model_version).value)
           n  == IF f.den < 0 THEN -f.num ELSE f.num
           d  == Abs(f.den)
           up == -((-n) \div d)
           dn == n \div d
           t  == ThresholdsGet(classifier.model_version)
           z  == IF up > t.safe THEN up
                 ELSE IF dn < t.distress THEN dn
                 ELSE z_results.z_score
       IN  z_dec' = ZScoreEvaluate(z, classifier.model_version)
    /\ stages' = Append(stages, "DecisionEngine(Z)")
    /\ pc' = "applicability"
    /\ UNCHANGED <<batch, self, z_fetcher, z_data, classifier, z_results,
                   merton_applicable, m_fetcher, m_data, merton_results,
                   merton_dec, exc, unit>>

\* ZScoreDecision(z_results["z_score"], model_version).evaluate()
ZDecisionStage ==
    /\ pc = "z_decide"
    /\ z_dec' = ZScoreEvaluate(z_results.z_score, classifier.model_version)
    /\ stages' = Append(stages, "DecisionEngine(Z)")
    /\ pc' = "applicability"
    /\ UNCHANGED <<batch, self, z_fetcher, z_data, classifier, z_results,
                   merton_applicable, m_fetcher, m_data, merton_results,
                   merton_dec, exc, unit>>

\* PASO 4: merton_applicable, merton_results = None, merton_dec = None and
\* the branch on merton_applicable
ApplicabilityStage ==
    /\ pc = "applicability"
    /\ merton_applicable' = GetMertonApplicability(classifier)
    /\ merton_results' = None
    /\ merton_dec' = None
    /\ pc' = IF merton_applicable' THEN "m_fetch" ELSE "consolidate"
    /\ UNCHANGED <<batch, self, z_fetcher, z_data, classifier, z_results,
                   z_dec, m_fetcher, m_data, exc, stages, unit>>

\* MertonDataFetcher(self.ticker).fetch_all()
FetchMerton ==
    /\ pc = "m_fetch"
    /\ LET r == MertonFetchAll(self.ticker, Stock.m_stock)
       IN  IF r.raised
           THEN Raised(r.exc) /\ UNCHANGED <<m_fetcher, m_data>>
           ELSE /\ m_fetcher' = r.value.fetcher
                /\ m_data' = r.value.data
                /\ pc' = "m_calc"
                /\ exc' = exc
    /\ UNCHANGED <<batch, self, z_fetcher, z_data, classifier, z_results,
                   z_dec, merton_applicable, merton_results, merton_dec,
                   stages, unit>>

\* MertonStage that goes on to the consolidation, skipping the decision
MertonStageSkipDecision ==
    /\ pc = "m_calc"
    /\ LET r == MertonCalculate(m_data)
       IN  IF r.raised
           THEN Raised(r.exc) /\ UNCHANGED <<merton_results, stages>>
           ELSE /\ merton_results' = r.value
                /\ stages' = Append(stages, "MertonEngine")
                /\ pc' = "consolidate"
                /\ exc' = exc
    /\ UNCHANGED <<batch, self, z_fetcher, z_data, classifier, z_results,
                   z_dec, merton_applicable, m_fetcher, m_data, merton_dec,
                   unit>>

\* MertonStage wrapped in a try/except that gives up on Merton and goes on
\* to the consolidation with the Z-Score decision alone
MertonStageDegrade ==
    /\ pc = "m_calc"
    /\ LET r == MertonCalculate(m_data)
       IN  IF r.raised
           THEN /\ merton_results' = None
                /\ stages' = stages
                /\ pc' = "consolidate"
                /\ exc' = exc
           ELSE /\ merton_results' = r.value
                /\ stages' = Append(stages, "MertonEngine")
                /\ pc' = "m_decide"
                /\ exc' = exc
    /\ UNCHANGED <<batch, self, z_fetcher, z_data, classifier, z_results,
                   z_dec, merton_applicable, m_fetcher, m_data, merton_dec,
                   unit>>

\* PASO 5: MertonCalculator(m_data).calculate()
MertonStage ==
    /\ pc = "m_calc"
    /\ LET r == MertonCalculate(m_data)
       IN  IF r.raised
           THEN Raised(r.exc) /\ UNCHANGED <<merton_results, stages>>
           ELSE /\ merton_results' = r.value
                /\ stages' = Append(stages, "MertonEngine")
                /\ pc' = "m_decide"
                /\ exc' = exc
    /\ UNCHANGED <<batch, self, z_fetcher, z_data, classifier, z_results,
                   z_dec, merton_applicable, m_fetcher, m_data, merton_dec,
                   unit>>

\* MertonDecision(merton_results["PD"], merton_results["DD"]).evaluate()
MertonDecisionStage ==
    /\ pc = "m_decide"
    /\ merton_dec' = MertonEvaluate(merton_results.PD, merton_results.DD)
    /\ stages' = Append(stages, "DecisionEngine(Merton)")
    /\ pc' = "consolidate"
    /\ UNCHANGED <<batch, self, z_fetcher, z_data, classifier, z_results,
                   z_dec, merton_applicable, m_fetcher, m_data,
                   merton_results, exc, unit>>

\* CONSOLIDAR: self.results = {...}; return self.results
Results ==
    [ ticker         |-> self.ticker,
      company_name   |-> z_fetcher.company_name,
      industry       |-> z_fetcher.industry,
      company_type   |-> classifier.company_type,
      zscore         |-> [ model_version |-> classifier.model_version,
                           ratios        |-> z_results,
                           decision      |-> z_dec ],
      merton         |-> [ applicable |-> merton_applicable,
                           results    |-> merton_results,
                           decision   |-> merton_dec ],
      final_decision |-> CombineDecisions(z_dec, merton_dec) ]

Consolidate ==
    /\ pc = "consolidate"
    /\ self' = [self EXCEPT !.results = Results]
    /\ stages' = Append(stages, "Reconciler")
    /\ pc' = "returned"
    /\ UNCHANGED <<batch, locals, exc, unit>>

(***************************************************************************)
(* risk_analyzer.py: RiskAnalyzer.analyze_multiple; main.py: main          *)
(***************************************************************************)
\* AppendResult that stores one shared results object at every position
AppendResultShared ==
    /\ pc = "returned"
    /\ all_results' = [j \in 1..(Len(all_results) + 1) |-> self.results]
    /\ pc' = "loop"
    /\ UNCHANGED <<tickers, mode, world, self, locals, exc, stages, unit>>

\* all_results.append(analyzer.run()); in single mode the one-element list
AppendResult ==
    /\ pc = "returned"
    /\ all_results' = Append(all_results, self.results)
    /\ pc' = "loop"
    /\ UNCHANGED <<tickers, mode, world, self, locals, exc, stages, unit>>

\* AppendError that gives up on the rest of the batch
AppendErrorAbort ==
    /\ pc = "raised"
    /\ mode = "batch"
    /\ all_results' = Append(all_results,
                             [ticker |-> Current, error |-> exc.msg])
    /\ exc' = None
    /\ pc' = "done"
    /\ UNCHANGED <<tickers, mode, world, self, locals, stages, unit>>

\* except Exception as e: all_results.append({"ticker": .., "error": str(e)})
AppendError ==
    /\ pc = "raised"
    /\ mode = "batch"
    /\ all_results' = Append(all_results,
                             [ticker |-> Current, error |-> exc.msg])
    /\ exc' = None
    /\ pc' = "loop"
    /\ UNCHANGED <<tickers, mode, world, self, locals, stages, unit>>

\* single mode: nothing catches the exception, it reaches main's caller
Propagate ==
    /\ pc = "raised"
    /\ mode = "single"
    /\ pc' = "crashed"
    /\ UNCHANGED <<batch, self, locals, exc, stages, unit>>

\* return all_results
ReturnAll ==
    /\ pc = "loop"
    /\ Len(all_results) = Len(tickers)
    /\ pc' = "done"
    /\ UNCHANGED <<batch, self, locals, exc, stages, unit>>

(***************************************************************************)
(* Direct calls of the pure stages, with arguments from the input sets     *)
(***************************************************************************)
run == <<tickers, mode, world, all_results, pc, self, locals, exc, stages>>

\* CompanyClassifier(industry, total_liabilities).classify()
CallClassify ==
    /\ \E industry \in Industries, total_liabilities \in Liabilities :
         call' = [ op   |-> "classify",
                   args |-> [ industry          |-> industry,
                              total_liabilities |-> total_liabilities ],
                   ret  |-> Classify(ClassifierInit(industry,
                                                    total_liabilities)) ]
    /\ UNCHANGED run

\* CompanyClassifier(industry, total_liabilities).get_merton_applicability()
CallGetMertonApplicability ==
    /\ \E industry \in Industries, total_liabilities \in Liabilities :
         call' = [ op   |-> "get_merton_applicability",
                   args |-> [ industry          |-> industry,
                              total_liabilities |-> total_liabilities ],
                   ret  |-> GetMertonApplicability(
                                ClassifierInit(industry, total_liabilities)) ]
    /\ UNCHANGED run

\* ZScoreDecision(z_score, model_version).evaluate()
CallZScoreEvaluate ==
    /\ \E z_score \in Scores, model_version \in Variants :
         call' = [ op   |-> "ZScoreDecision.evaluate",
                   args |-> [ z_score       |-> z_score,
                              model_version |-> model_version ],
                   ret  |-> ZScoreEvaluate(z_score, model_version) ]
    /\ UNCHANGED run

\* MertonDecision(PD, DD).evaluate()
CallMertonEvaluate ==
    /\ \E PD \in PDs, DD \in DDs :
         call' = [ op   |-> "MertonDecision.evaluate",
                   args |-> [PD |-> PD, DD |-> DD],
                   ret  |-> MertonEvaluate(PD, DD) ]
    /\ UNCHANGED run

\* calc = ZScoreCalculator(data, model_version); calc.calculate(); then
\* calc.get_results().  obj is the calculator afterwards (None when the
\* constructor raised).
CallZScoreCalculate ==
    /\ \E data \in Facts, model_version \in Variants :
         LET c == ZScoreCalculatorInit(data, model_version)
         IN  call' = [ op   |-> "ZScoreCalculator.calculate",
                       args |-> [ data          |-> data,
                                  model_version |-> model_version ],
                       ret  |-> IF c.raised THEN c
                                ELSE ZScoreCalculate(c.value),
                       obj  |-> IF c.raised THEN None
                                ELSE ZScoreCalculated(c.value),
                       get_results |->
                                IF c.raised THEN None
                                ELSE BaseCalculatorGetResults(
                                         ZScoreCalculated(c.value)) ]
    /\ UNCHANGED run

\* calc = MertonCalculator(data); calc.calculate(); then calc.get_results()
CallMertonCalculate ==
    /\ \E data \in MertonInputs :
         LET c == MertonCalculatorInit(data)
         IN  call' = [ op   |-> "MertonCalculator.calculate",
                       args |-> [data |-> data],
                       ret  |-> MertonCalculate(data),
                       obj  |-> MertonCalculated(c),
                       get_results |->
                           BaseCalculatorGetResults(MertonCalculated(c)) ]
    /\ UNCHANGED run

\* MertonDataFetcher._calculate_mu_and_sigma() on a fetcher whose
\* assets_history is given
CallCalculateMuAndSigma ==
    /\ \E assets_history \in Histories :
         call' = [ op   |-> "_calculate_mu_and_sigma",
                   args |-> [assets_history |-> assets_history],
                   ret  |-> CalculateMuAndSigma(assets_history) ]
    /\ UNCHANGED run

\* the decisions the two engines can hand to the reconciler
ZDecisions ==
    {ZScoreEvaluate(z, v) : z \in Scores, v \in DOMAIN THRESHOLDS}

MertonDecisions == {MertonEvaluate(p, d) : p \in PDs, d \in DDs}

\* _combine_decisions(z_dec, merton_dec), merton_dec possibly None
CallCombineDecisions ==
    /\ \E zd \in ZDecisions, present \in BOOLEAN, md \in MertonDecisions :
         LET m == IF present THEN md ELSE None
         IN  call' = [ op   |-> "_combine_decisions",
                       args |-> [z_dec |-> zd, merton_dec |-> m],
                       ret  |-> CombineDecisions(zd, m) ]
    /\ UNCHANGED run

(***************************************************************************)
(* Specifications                                                          *)
(***************************************************************************)
RECURSIVE SeqsUpTo(_, _)
\* the sequences over S of length at most n
SeqsUpTo(S, n) ==
    IF n = 0 THEN {<<>>}
    ELSE LET shorter == SeqsUpTo(S, n - 1)
         IN  shorter \cup {Append(q, x) : q \in shorter, x \in S}

NoCall == [op |-> "none", args |-> None, ret |-> None]

Idle ==
    /\ world = <<>>
    /\ all_results = <<>>
    /\ self = None
    /\ z_fetcher = None /\ z_data = None /\ classifier = None
    /\ z_results = None /\ z_dec = None /\ merton_applicable = FALSE
    /\ m_fetcher = None /\ m_data = None
    /\ merton_results = None /\ merton_dec = None
    /\ exc = None
    /\ stages = <<>>
    /\ call = NoCall

\* main with one ticker runs RiskAnalyzer(tickers[0]).run() uncaught;
\* analyze_multiple takes any list
Init ==
    /\ mode \in {"single", "batch"}
    /\ tickers \in SeqsUpTo(Tickers, MaxBatch)
    /\ mode = "single" => Len(tickers) = 1
    /\ pc = "loop"
    /\ Idle

Next ==
    \/ Begin
    \/ FetchZ
    \/ ClassifyStage
    \/ ZScoreStage
    \/ ZDecisionStage
    \/ ApplicabilityStage
    \/ FetchMerton
    \/ MertonStage
    \/ MertonDecisionStage
    \/ Consolidate
    \/ AppendResult
    \/ AppendError
    \/ Propagate
    \/ ReturnAll

Spec == Init /\ [][Next]_vars

\* the pure stages called directly
UnitInit ==
    /\ mode = "batch"
    /\ tickers = <<>>
    /\ pc = "done"
    /\ Idle

UnitNext ==
    \/ CallClassify
    \/ CallGetMertonApplicability
    \/ CallZScoreEvaluate
    \/ CallMertonEvaluate
    \/ CallCombineDecisions
    \/ CallZScoreCalculate
    \/ CallMertonCalculate
    \/ CallCalculateMuAndSigma

SpecUnit == UnitInit /\ [][UnitNext]_vars

(***************************************************************************)
(* RiskAnalyzer(ticker).run() as a function of the ticker and of what the  *)
(* provider returns for it: Return(results) or Raise(..)                   *)
(***************************************************************************)
RunAlone(ticker, w) ==
    LET t  == NormTicker(ticker)
        zf == ZFetchAll(t, w.z_stock)
        cl == Classify(ClassifierInit(zf.value.fetcher.industry,
                                      zf.value.data.total_liabilities))
        ci == ZScoreCalculatorInit(zf.value.data, cl.model_version)
        zr == IF ci.raised THEN ci ELSE ZScoreCalculate(ci.value)
        zd == ZScoreEvaluate(zr.value.z_score, cl.model_version)
        mf == MertonFetchAll(t, w.m_stock)
        mr == MertonCalculate(mf.value.data)
        md == MertonEvaluate(mr.value.PD, mr.value.DD)
        results(applicable, m_results, m_dec) ==
          [ ticker         |-> t,
            company_name   |-> zf.value.fetcher.company_name,
            industry       |-> zf.value.fetcher.industry,
            company_type   |-> cl.company_type,
            zscore         |-> [ model_version |-> cl.model_version,
                                 ratios        |-> zr.value,
                                 decision      |-> zd ],
            merton         |-> [ applicable |-> applicable,
                                 results    |-> m_results,
                                 decision   |-> m_dec ],
            final_decision |-> CombineDecisions(zd, m_dec) ]
    IN  IF zf.raised THEN zf
        ELSE IF zr.raised THEN zr
        ELSE IF ~GetMertonApplicability(cl)
        THEN Return(results(FALSE, None, None))
        ELSE IF mf.raised THEN mf
        ELSE IF mr.raised THEN mr
        ELSE Return(results(TRUE, mr.value, md))

(***************************************************************************)
(* Properties                                                              *)
(***************************************************************************)
Combined == call.op = "_combine_decisions"

\* C1: with both decisions present, the final decision is DENIED if either
\* input is DENIED, else APPROVED if both are APPROVED, else APPROVED WITH
\* WARNING (all 9 pairs).
C1_BothPresent ==
    (Combined /\ call.args.merton_dec # None) =>
        LET z == call.args.z_dec.decision
            m == call.args.merton_dec.decision
        IN  /\ (z = "DENIED" \/ m = "DENIED") => call.ret.decision = "DENIED"
            /\ (z = "APPROVED" /\ m = "APPROVED") =>
                   call.ret.decision = "APPROVED"
            /\ (z # "DENIED" /\ m # "DENIED"
                  /\ ~(z = "APPROVED" /\ m = "APPROVED")) =>
                   call.ret.decision = "APPROVED WITH WARNING"

\* a mixed pair: Z-Score grey, Merton safe, reconciled to a warning
C1_Witness ==
    /\ Combined
    /\ call.args.merton_dec # None
    /\ call.args.z_dec.decision = "APPROVED WITH WARNING"
    /\ call.args.merton_dec.decision = "APPROVED"
    /\ call.ret.decision = "APPROVED WITH WARNING"

\* C2 as stated: without a Merton decision the final decision is the
\* Z-Score decision and the basis is exactly
\* "Z-Score only (Merton not applicable)".
C2_AsStated ==
    (Combined /\ call.args.merton_dec = None) =>
        /\ call.ret.decision = call.args.z_dec.decision
        /\ call.ret.basis = <<"Z-Score only (Merton not applicable)">>

\* C2 amended: without a Merton decision the final decision is the Z-Score
\* decision verbatim and the basis is exactly
\* "Z-Score únicamente (Merton no aplicable)".
C2_ZScoreOnly ==
    (Combined /\ call.args.merton_dec = None) =>
        /\ call.ret.decision = call.args.z_dec.decision
        /\ call.ret.basis = <<"Z-Score únicamente (Merton no aplicable)">>

\* an approval reconciled without Merton
C2_Witness ==
    /\ Combined
    /\ call.args.merton_dec = None
    /\ call.args.z_dec.decision = "APPROVED"
    /\ call.ret.decision = "APPROVED"

\* C7: for each variant the Z-Score zone is SAFE iff score > safe threshold,
\* DISTRESS iff score < distress threshold, GREY ZONE otherwise; a score
\* equal to a threshold is GREY ZONE ("Z": 2.99 / 1.81, "Z_double_prime":
\* 2.60 / 1.10).
C7_ZScoreZones ==
    (call.op = "ZScoreDecision.evaluate") =>
        LET score    == call.args.z_score
            safe     == IF call.args.model_version = "Z" THEN 29900
                        ELSE 26000
            distress == IF call.args.model_version = "Z" THEN 18100
                        ELSE 11000
        IN  /\ call.ret.zone = "SAFE" <=> score > safe
            /\ call.ret.zone = "DISTRESS" <=> score < distress
            /\ call.ret.zone = "GREY ZONE" <=>
                   (distress <= score /\ score <= safe)
            /\ score \in {safe, distress} => call.ret.zone = "GREY ZONE"

\* the score 2.99 under variant "Z" is evaluated as GREY ZONE
C7_Witness ==
    /\ call.op = "ZScoreDecision.evaluate"
    /\ call.args.model_version = "Z"
    /\ call.args.z_score = 29900
    /\ call.ret.zone = "GREY ZONE"

\* C8: the Merton zone is SAFE iff PD < 0.02, DISTRESS iff PD > 0.05, GREY
\* ZONE otherwise (PD equal to 0.02 or 0.05 is GREY ZONE), whatever DD is.
C8_MertonZones ==
    (call.op = "MertonDecision.evaluate") =>
        LET PD == call.args.PD
        IN  /\ call.ret.zone = "SAFE" <=> PD < 20000
            /\ call.ret.zone = "DISTRESS" <=> PD > 50000
            /\ call.ret.zone = "GREY ZONE" <=> (20000 <= PD /\ PD <= 50000)
            /\ call.ret.reasoning.safe = 20000
            /\ call.ret.reasoning.distress = 50000

\* PD exactly 0.02 is evaluated as GREY ZONE
C8_Witness ==
    /\ call.op = "MertonDecision.evaluate"
    /\ call.args.PD = 20000
    /\ call.ret.zone = "GREY ZONE"

\* C9: every ZoneDecision of either engine pairs SAFE with APPROVED, GREY
\* ZONE with APPROVED WITH WARNING and DISTRESS with DENIED, and no other
\* (zone, decision) pair occurs.
C9_ZoneDecisionMapping ==
    (call.op \in {"ZScoreDecision.evaluate", "MertonDecision.evaluate"}) =>
        <<call.ret.zone, call.ret.decision>> \in
            { <<"SAFE", "APPROVED">>,
              <<"GREY ZONE", "APPROVED WITH WARNING">>,
              <<"DISTRESS", "DENIED">> }

\* the Merton engine denies a PD in distress
C9_Witness ==
    /\ call.op = "MertonDecision.evaluate"
    /\ call.ret.zone = "DISTRESS"
    /\ call.ret.decision = "DENIED"

\* the first-match rule of the classifier over the lower-cased, trimmed
\* industry text
FirstMatch(industry) ==
    LET text == Strip(Lower(IF industry = NoneText THEN <<>> ELSE industry))
    IN  IF text = <<>> THEN <<"non_manufacturing", "Z_double_prime">>
        ELSE IF \E kw \in FINANCIAL_KEYWORDS : Contains(text, kw)
        THEN <<"financial", "Z_double_prime">>
        ELSE IF \E kw \in MANUFACTURING_KEYWORDS : Contains(text, kw)
        THEN <<"manufacturing", "Z">>
        ELSE <<"non_manufacturing", "Z_double_prime">>

\* C10: classify is the first-match rule over the lower-cased, trimmed
\* industry: empty or absent -> (non_manufacturing, Z''), else a financial
\* keyword -> (financial, Z''), else a manufacturing keyword ->
\* (manufacturing, Z), else (non_manufacturing, Z''); the version is "Z"
\* iff the type is manufacturing.
C10_FirstMatch ==
    (call.op = "classify") =>
        /\ <<call.ret.company_type, call.ret.model_version>> =
               FirstMatch(call.args.industry)
        /\ call.ret.model_version = "Z" <=>
               call.ret.company_type = "manufacturing"

\* "Auto Insurance" holds a keyword of both lists and is financial
C10_Witness ==
    /\ call.op = "classify"
    /\ call.args.industry =
           <<"A","u","t","o"," ","I","n","s","u","r","a","n","c","e">>
    /\ call.ret.company_type = "financial"
    /\ call.ret.model_version = "Z_double_prime"

\* the result RiskAnalyzer(ticker).run() alone gives position i, an error
\* record standing for an exception
Alone(i) ==
    LET r == RunAlone(tickers[i], Worlds[world[i]])
    IN  IF r.raised THEN [ticker |-> tickers[i], error |-> r.exc.msg]
        ELSE r.value

ErrorRecord(r) == DOMAIN r = {"ticker", "error"}

FullyPopulated(r) ==
    /\ DOMAIN r = {"ticker", "company_name", "industry", "company_type",
                   "zscore", "merton", "final_decision"}
    /\ r.company_type \in {"manufacturing", "non_manufacturing", "financial"}
    /\ r.zscore.ratios # None
    /\ r.zscore.decision # None
    /\ r.merton.applicable => (r.merton.results # None
                               /\ r.merton.decision # None)
    /\ r.final_decision.decision \in
           {"APPROVED", "APPROVED WITH WARNING", "DENIED"}

\* C3: analyze_multiple never aborts early: one result per input ticker, in
\* input order; a ticker whose analysis raises gets an error record
\* {ticker, error message}, every other position a fully populated result.
C3_BatchIsolation ==
    (mode = "batch") =>
        /\ pc # "crashed"
        /\ Len(all_results) <= Len(tickers)
        /\ pc = "done" => Len(all_results) = Len(tickers)
        /\ \A i \in 1..Len(all_results) :
             LET r == RunAlone(tickers[i], Worlds[world[i]])
             IN  IF r.raised
                 THEN all_results[i] =
                          [ticker |-> tickers[i], error |-> r.exc.msg]
                 ELSE /\ FullyPopulated(all_results[i])
                      /\ all_results[i].ticker = NormTicker(tickers[i])

\* a finished batch whose first ticker failed and whose second succeeded
C3_Witness ==
    /\ mode = "batch"
    /\ pc = "done"
    /\ Len(all_results) = 2
    /\ ErrorRecord(all_results[1])
    /\ FullyPopulated(all_results[2])

\* C4: the result at each position is the result run() gives that ticker
\* alone on the same provider data, whatever the other tickers of the batch
\* are, in whatever order, failing or not.
C4_Independent ==
    \A i \in 1..Len(all_results) : all_results[i] = Alone(i)

\* a ticker without Merton analysed right after one with Merton
C4_Witness ==
    /\ pc = "done"
    /\ Len(all_results) = 2
    /\ FullyPopulated(all_results[1])
    /\ all_results[1].merton.applicable
    /\ FullyPopulated(all_results[2])
    /\ ~all_results[2].merton.applicable

FullOrder ==
    <<"Classifier", "ZScoreEngine", "DecisionEngine(Z)", "MertonEngine",
      "DecisionEngine(Merton)", "Reconciler">>

ShortOrder ==
    <<"Classifier", "ZScoreEngine", "DecisionEngine(Z)", "Reconciler">>

IsPrefix(p, q) == Len(p) <= Len(q) /\ SubSeq(q, 1, Len(p)) = p

\* C5: the stages of run() complete in the order Classifier, ZScoreEngine,
\* DecisionEngine(Z), [MertonEngine, DecisionEngine(Merton),] Reconciler:
\* the Merton pair is run in that position iff Merton is applicable and
\* skipped as a pair otherwise, and the Reconciler is last and runs once.
\* A run that a stage aborts stops at a prefix of that order.
C5_StageOrder ==
    /\ IsPrefix(stages, FullOrder) \/ IsPrefix(stages, ShortOrder)
    /\ pc = "returned" =>
           stages = IF merton_applicable THEN FullOrder ELSE ShortOrder
    /\ pc = "consolidate" =>
           stages = IF merton_applicable
                    THEN SubSeq(FullOrder, 1, 5) ELSE SubSeq(ShortOrder, 1, 3)

\* a completed run with both Merton stages
C5_Witness ==
    /\ pc = "returned"
    /\ merton_applicable
    /\ stages = FullOrder

Range(q) == {q[i] : i \in 1..Len(q)}

InRun == pc \notin {"loop", "done"}

\* the analysis has ended with an exception
Failed == pc \in {"raised", "crashed"}

MertonStagesRun ==
    \/ pc \in {"m_fetch", "m_calc", "m_decide"}
    \/ {"MertonEngine", "DecisionEngine(Merton)"} \cap Range(stages) # {}
    \/ m_data # None
    \/ merton_results # None
    \/ merton_dec # None

ZScoreOnlyBasis ==
    { <<"Z-Score only (Merton not applicable)">>,
      <<"Z-Score únicamente (Merton no aplicable)">> }

\* C6 as stated: for every company with total_liabilities <= 0 the
\* applicability test is false, the Merton stages are not executed and the
\* analysis yields a final decision whose basis states Z-Score only.
C6_AsStated ==
    (InRun /\ z_data # None /\ z_data.total_liabilities <= 0) =>
        /\ ~GetMertonApplicability(
                ClassifierInit(z_fetcher.industry, z_data.total_liabilities))
        /\ ~MertonStagesRun
        /\ ~Failed
        /\ pc = "returned" =>
               self.results.final_decision.basis \in ZScoreOnlyBasis

\* C6 amended: the applicability test is true iff total_liabilities > 0;
\* with total_liabilities <= 0 the Merton stages are never executed; with
\* total_liabilities < 0 and total_assets # 0 the analysis yields the
\* Z-Score decision as final decision with the basis "Z-Score únicamente
\* (Merton no aplicable)"; with total_liabilities = 0 the Z-Score stage
\* raises ZeroDivisionError and there is no final decision.
C6_Inapplicable ==
    (InRun /\ z_data # None) =>
        LET tl == z_data.total_liabilities
            ta == z_data.total_assets
        IN  /\ GetMertonApplicability(ClassifierInit(z_fetcher.industry, tl))
                   <=> tl > 0
            /\ pc \notin {"fetch_z", "classify", "z_calc", "z_decide",
                          "applicability", "raised", "crashed"} =>
                   (merton_applicable <=> tl > 0)
            /\ tl <= 0 => ~MertonStagesRun
            /\ (tl < 0 /\ ta # 0) => ~Failed
            /\ (tl <= 0 /\ pc = "returned") =>
                   /\ tl < 0
                   /\ self.results.final_decision =
                          [ decision |-> z_dec.decision,
                            basis    |->
                              <<"Z-Score únicamente (Merton no aplicable)">> ]
            /\ (tl = 0 /\ pc \notin {"classify", "z_calc"}) =>
                   /\ Failed
                   /\ exc.type = "ZeroDivisionError"

\* a completed analysis of a company with negative liabilities
C6_Witness ==
    /\ pc = "returned"
    /\ z_data.total_liabilities < 0
    /\ stages = ShortOrder
    /\ self.results.merton = [applicable |-> FALSE, results |-> None,
                              decision |-> None]
    /\ self.results.final_decision.basis =
           <<"Z-Score únicamente (Merton no aplicable)">>

\* C11: ZScoreCalculator.calculate raises ZeroDivisionError whenever
\* total_assets = 0 or total_liabilities = 0, under either variant; the test
\* precedes every ratio, so the calculator keeps its initial ratios, score
\* and empty result, get_results still fails, and nothing is returned.
\* With both non-zero it returns finite numbers.
C11_ZeroDivision ==
    (call.op = "ZScoreCalculator.calculate"
       /\ call.args.model_version \in {"Z", "Z_double_prime"}) =>
        LET ta == call.args.data.total_assets
            tl == call.args.data.total_liabilities
        IN  /\ (ta = 0 \/ tl = 0) =>
                   /\ call.ret.raised
                   /\ call.ret.exc.type = "ZeroDivisionError"
                   /\ call.ret.exc.msg =
                          IF ta = 0 THEN <<"Total Assets es 0.">>
                          ELSE <<"Total Liabilities es 0.">>
                   /\ \A x \in {"x1", "x2", "x3", "x4", "x5", "z_score"} :
                          call.obj[x] = [num |-> 0, den |-> 1]
                   /\ DOMAIN call.obj.result = {}
                   /\ call.get_results.raised
                   /\ call.get_results.exc.type = "RuntimeError"
            /\ (ta # 0 /\ tl # 0) =>
                   /\ ~call.ret.raised
                   /\ \A x \in {"x1", "x2", "x3", "x4", "x5", "z_score"} :
                          /\ call.ret.value[x] \in Int
                          /\ call.obj[x].den # 0
                   /\ call.get_results = [raised |-> FALSE,
                                          value  |-> call.ret.value]

\* zero liabilities with non-zero assets: the second test raises
C11_Witness ==
    /\ call.op = "ZScoreCalculator.calculate"
    /\ call.args.model_version = "Z"
    /\ call.args.data.total_assets = 66
    /\ call.args.data.total_liabilities = 0
    /\ call.ret.raised
    /\ call.ret.exc.msg = <<"Total Liabilities es 0.">>
    /\ call.get_results.raised

\* the weighted sum of the full-precision ratios, rounded to 4 decimals:
\* 1.2 X1 + 1.4 X2 + 3.3 X3 + 0.6 X4 + 1.0 X5 for "Z" and
\* 6.56 X1 + 3.26 X2 + 6.72 X3 + 1.05 X4 for "Z_double_prime", with
\* X1 = wc/ta, X2 = re/ta, X3 = ebit/ta, X4 = mc/tl, X5 = sales/ta, brought
\* to the denominator ta * tl (units of 10^-4)
WeightedSum(d, v) ==
    LET ta == d.total_assets
        tl == d.total_liabilities
    IN  IF v = "Z"
        THEN RoundDiv(100 * ( 120 * d.working_capital * tl
                            + 140 * d.retained_earnings * tl
                            + 330 * d.ebit * tl
                            + 60 * d.market_cap * ta
                            + 100 * d.sales * tl ), ta * tl)
        ELSE RoundDiv(100 * ( 656 * d.working_capital * tl
                            + 326 * d.retained_earnings * tl
                            + 672 * d.ebit * tl
                            + 105 * d.market_cap * ta ), ta * tl)

\* C12: with total_assets # 0 and total_liabilities # 0 the reported score
\* is the variant's weighted sum of the full-precision ratios rounded to 4
\* decimals, a function of the facts alone; under "Z_double_prime" X5 is 0
\* and sales does not enter the result.
C12_WeightedSum ==
    (call.op = "ZScoreCalculator.calculate"
       /\ call.args.model_version \in {"Z", "Z_double_prime"}
       /\ call.args.data.total_assets # 0
       /\ call.args.data.total_liabilities # 0) =>
        LET d == call.args.data
            v == call.args.model_version
        IN  /\ ~call.ret.raised
            /\ call.ret.value.z_score = WeightedSum(d, v)
            /\ call.ret.value.model_version = v
            /\ v = "Z_double_prime" =>
                   /\ call.ret.value.x5 = 0
                   /\ call.ret.value =
                          [ model_version |-> v,
                            x1 |-> RoundDiv(10000 * d.working_capital,
                                            d.total_assets),
                            x2 |-> RoundDiv(10000 * d.retained_earnings,
                                            d.total_assets),
                            x3 |-> RoundDiv(10000 * d.ebit, d.total_assets),
                            x4 |-> RoundDiv(10000 * d.market_cap,
                                            d.total_liabilities),
                            x5 |-> 0,
                            z_score |-> WeightedSum(d, v) ]
            /\ v = "Z" =>
                   call.ret.value.x5 = RoundDiv(10000 * d.sales,
                                                d.total_assets)

\* a "Z_double_prime" score of a company with sales: 6.56 * 20/66
\* + 3.26 * 30/66 + 6.72 * 10/66 + 1.05 * 100/33 = 7.6697
C12_Witness ==
    /\ call.op = "ZScoreCalculator.calculate"
    /\ call.args.model_version = "Z_double_prime"
    /\ call.args.data = [ working_capital |-> 20, total_assets |-> 66,
                          retained_earnings |-> 30, ebit |-> 10,
                          market_cap |-> 100, total_liabilities |-> 33,
                          sales |-> 60 ]
    /\ ~call.ret.raised
    /\ call.ret.value.z_score = 76697

\* C13 as stated: a model version other than "Z" and "Z_double_prime" is
\* rejected at construction: neither a ZScoreCalculator nor a ZScoreDecision
\* built with it ever computes a score or emits a zone and a decision.
C13_AsStated ==
    (call.op \in {"ZScoreCalculator.calculate", "ZScoreDecision.evaluate"}
       /\ call.args.model_version \notin {"Z", "Z_double_prime"}) =>
        /\ call.op = "ZScoreCalculator.calculate" =>
               /\ call.ret.raised
               /\ call.ret.exc.type = "ValueError"
               /\ call.obj = None
        /\ call.op = "ZScoreDecision.evaluate" =>
               {"zone", "decision"} \cap DOMAIN call.ret = {}

\* C14: MertonCalculator.calculate tests D > 0, V_A > 0 and sigma > 0 before
\* any computation: when one fails it raises an error naming the first
\* violated condition, leaves DD, PD and the result untouched (get_results
\* still fails) and never replaces the offending input; DD and PD are
\* computed exactly when all three hold, from the inputs as given.
C14_Preconditions ==
    (call.op = "MertonCalculator.calculate") =>
        LET d  == call.args.data
            ok == d.D > 0 /\ d.V_A > 0 /\ d.sigma > 0
        IN  /\ call.ret.raised <=> ~ok
            /\ ~ok =>
                   /\ call.ret.exc.type = "ValueError"
                   /\ call.ret.exc.msg =
                          IF d.D <= 0
                          THEN <<"D (pasivos) debe ser mayor que 0.">>
                          ELSE IF d.V_A <= 0
                          THEN <<"V_A (activos) debe ser mayor que 0.">>
                          ELSE <<"σ debe ser mayor que 0.">>
                   /\ call.obj = [ data |-> d, result |-> <<>>,
                                   DD |-> [num |-> 0, den |-> 1], PD |-> 0 ]
                   /\ call.get_results.raised
                   /\ call.get_results.exc.type = "RuntimeError"
            /\ ok =>
                   /\ {"DD", "PD"} \subseteq DOMAIN call.ret.value
                   /\ call.ret.value.V_A = d.V_A
                   /\ call.ret.value.D = d.D
                   /\ call.ret.value.sigma = d.sigma
                   /\ call.obj.data = d
                   /\ call.get_results = [raised |-> FALSE,
                                          value  |-> call.ret.value]

\* sigma = 0 with positive assets and liabilities: the third test raises
C14_Witness ==
    /\ call.op = "MertonCalculator.calculate"
    /\ call.args.data.D = 1
    /\ call.args.data.V_A = 2
    /\ call.args.data.sigma = 0
    /\ call.ret.raised
    /\ call.ret.exc.msg = <<"σ debe ser mayor que 0.">>
    /\ call.get_results.raised

\* [ln(V_A/D) + (mu - sigma^2/2) T] / (sigma sqrt(T)) for T = 1, as a
\* fraction of 10^-4 units (mu and sigma in units of 10^-4, the logarithm in
\* units of 10^-8)
DistanceToDefault(d) ==
    [ num |-> LN_TABLE[<<d.V_A, d.D>>]
              + (10000 * d.mu - (d.sigma * d.sigma) \div 2) * d.T,
      den |-> d.sigma ]

\* C15: when the preconditions hold, calculate() returns
\* DD = [ln(V_A/D) + (mu - sigma^2/2) T] / (sigma sqrt(T)) and
\* PD = 1 - Phi(DD), so that 0 <= PD <= 1; for V_A = D, mu = 0, sigma = 0.3,
\* T = 1 it returns DD = -0.15 and PD = 0.5596 to 4 decimals.
C15_DistanceAndProbability ==
    (call.op = "MertonCalculator.calculate" /\ ~call.ret.raised) =>
        LET d  == call.args.data
            dd == DistanceToDefault(d)
        IN  /\ call.ret.value.DD = RoundDiv(dd.num, dd.den)
            /\ call.ret.value.PD =
                   1000000 - NORMAL_CDF_TABLE[<<2 * dd.num, 2 * dd.den>>]
            /\ call.ret.value.PD \in 0..1000000
            /\ (d.V_A = d.D /\ d.mu = 0 /\ d.sigma = 3000 /\ d.T = 1) =>
                   /\ call.ret.value.DD = -1500
                   /\ RoundDiv(call.ret.value.PD, 100) = 5596

\* the worked example: V_A = D = 1, mu = 0, sigma = 0.3, T = 1
C15_Witness ==
    /\ call.op = "MertonCalculator.calculate"
    /\ call.args.data = [V_A |-> 1, D |-> 1, mu |-> 0, sigma |-> 3000,
                         T |-> 1]
    /\ ~call.ret.raised
    /\ call.ret.value.DD = -1500
    /\ call.ret.value.PD = 559618

\* what the analysis of the current ticker raises, taken stage by stage
StageError == RunAlone(Current, Stock).exc

\* the step an exception in flight allows, and the steps that raise one
PropagationStep ==
    /\ (pc = "raised" /\ mode = "single") =>
          /\ pc' = "crashed"
          /\ exc' = exc
          /\ self' = self
          /\ all_results' = all_results
    /\ (pc = "raised" /\ mode = "batch") =>
          /\ pc' = "loop"
          /\ all_results' =
                 Append(all_results, [ticker |-> Current, error |-> exc.msg])
    /\ pc = "crashed" => FALSE
    /\ (pc' = "raised" /\ pc # "raised") =>
          /\ pc \in {"fetch_z", "z_calc", "m_fetch", "m_calc"}
          /\ stages' = stages
          /\ self' = self

\* C16: an exception raised by a stage leaves run() as it was raised: it is
\* the exception in flight, nothing in run() catches it, retries the stage
\* or stores a result (get_results still fails); a single-ticker invocation
\* hands it unmodified to its caller, and only analyze_multiple converts it,
\* into the record {ticker, error} whose error is the exception's message.
C16_Propagation ==
    /\ [](Failed =>
             /\ exc # None
             /\ exc = StageError
             /\ DOMAIN self.results = {}
             /\ RiskAnalyzerGetResults(self).raised
             /\ RiskAnalyzerGetResults(self).exc.type = "RuntimeError")
    /\ [](pc = "crashed" => mode = "single" /\ all_results = <<>>)
    /\ [][PropagationStep]_vars

\* a single-ticker invocation ended by the Z-Score stage's ZeroDivisionError
C16_Witness ==
    /\ mode = "single"
    /\ pc = "crashed"
    /\ exc = [type |-> "ZeroDivisionError", msg |-> <<"Total Assets es 0.">>]
    /\ DOMAIN self.results = {}

\* the provider's latest statements hold a source for the field
Fetched(field) ==
    LET info == Stock.z_stock.info
        bs   == DOMAIN Stock.z_stock.balance_sheet
        inc  == DOMAIN Stock.z_stock.income_stmt
    IN  CASE field = "working_capital" ->
                 \/ "Working Capital" \in bs
                 \/ {"Current Assets", "Current Liabilities"} \subseteq bs
          [] field = "total_assets" -> "Total Assets" \in bs
          [] field = "retained_earnings" -> "Retained Earnings" \in bs
          [] field = "ebit" ->
                 {"EBIT", "Operating Income", "Pretax Income"} \cap inc # {}
          [] field = "market_cap" -> "marketCap" \in DOMAIN info
          [] field = "total_liabilities" ->
                 "Total Liabilities Net Minority Interest" \in bs
          [] field = "sales" ->
                 {"Total Revenue", "Operating Revenue"} \cap inc # {}

\* C17 as stated: when any of working_capital, total_assets,
\* retained_earnings, ebit, market_cap, total_liabilities or sales is absent
\* from the fetched data the fetcher fails, so no data reaches the core and
\* no Z-Score is computed with an absent field replaced by 0.
C17_AsStated ==
    (InRun /\ (z_data # None \/ z_results # None)) =>
        \A field \in {"working_capital", "total_assets", "retained_earnings",
                       "ebit", "market_cap", "total_liabilities", "sales"} :
            Fetched(field)

\* the total-asset observations the Merton download returns, oldest first
Observations == Stock.m_stock.balance_sheet["Total Assets"]

\* some consecutive pair of observations has a non-zero earlier value
ChangeFormed ==
    \E i \in 2..Len(Observations) : Observations[i - 1] # 0

\* the Merton download of the current ticker has been attempted and its
\* balance sheet was not empty
MertonFetched ==
    /\ InRun
    /\ merton_applicable
    /\ pc \notin {"fetch_z", "classify", "z_calc", "z_decide",
                  "applicability", "m_fetch"}
    /\ DOMAIN Stock.m_stock.balance_sheet # {}

\* C18: with fewer than 2 observations, or when no fractional change can be
\* formed, the Merton fetch fails; otherwise it yields mu and sigma, with
\* the short-history warning for exactly 2 observations and without it for
\* 3 or more.
C18_HistorySufficiency ==
    MertonFetched =>
        LET n == Len(Observations)
        IN  /\ n < 2 =>
                   /\ Failed
                   /\ exc = [ type |-> "ValueError",
                              msg  |-> <<"[", self.ticker, "] Solo ", Digit(n),
                                         " años disponibles. Mínimo requerido: ",
                                         "2", ".">> ]
                   /\ m_data = None
            /\ (n >= 2 /\ ~ChangeFormed) =>
                   /\ Failed
                   /\ exc = [ type |-> "ValueError",
                              msg  |-> <<"No hay suficientes variaciones para calcular μ y σ.">> ]
                   /\ m_data = None
            /\ (n >= 2 /\ ChangeFormed) =>
                   /\ m_data # None
                   /\ m_data.mu \in Int
                   /\ m_data.sigma \in Int
                   /\ m_fetcher.n_years_used = n
                   /\ m_fetcher.warned <=> n = 2

\* a two-year history: the fetch warns and still hands mu and sigma on
C18_Witness ==
    /\ MertonFetched
    /\ Len(Observations) = 2
    /\ pc = "m_calc"
    /\ m_fetcher.warned
    /\ m_data.mu = 2500
    /\ m_data.sigma = 2500

\* the fractional change of the pair ending at index i, in units of 10^-4
ChangeAt(h, i) == RoundDiv(10000 * (h[i] - h[i - 1]), Abs(h[i - 1]))

\* the pairs kept: those whose earlier value is not 0
KeptPairs(h) == {i \in 2..Len(h) : h[i - 1] # 0}

RECURSIVE SumOver(_, _)
SumOver(f, S) ==
    IF S = {} THEN 0
    ELSE LET x == CHOOSE y \in S : TRUE
         IN  f[x] + SumOver(f, S \ {x})

Severity(decision) ==
    CASE decision = "APPROVED" -> 0
      [] decision = "APPROVED WITH WARNING" -> 1
      [] decision = "DENIED" -> 2

\* C20: for two present decisions the final decision is the more severe of
\* the two (APPROVED < APPROVED WITH WARNING < DENIED), hence never less
\* severe than either input; it is the same with the inputs swapped, and a
\* decision combined with itself gives that decision.
C20_ConservativeMerge ==
    (Combined /\ call.args.merton_dec # None) =>
        LET zd == call.args.z_dec
            md == call.args.merton_dec
            sz == Severity(zd.decision)
            sm == Severity(md.decision)
        IN  /\ Severity(call.ret.decision) = IF sz >= sm THEN sz ELSE sm
            /\ call.ret.decision \in {zd.decision, md.decision}
            /\ Severity(call.ret.decision) >= sz
            /\ Severity(call.ret.decision) >= sm
            /\ CombineDecisions(md, zd).decision = call.ret.decision
            /\ CombineDecisions(zd, zd).decision = zd.decision
            /\ CombineDecisions(md, md).decision = md.decision

\* an approving Z-Score merged with a Merton warning gives the warning
C20_Witness ==
    /\ Combined
    /\ call.args.merton_dec # None
    /\ call.args.z_dec.decision = "APPROVED"
    /\ call.args.merton_dec.decision = "APPROVED WITH WARNING"
    /\ call.ret.decision = "APPROVED WITH WARNING"

\* the zone the strict thresholds assign to a reported value
ZoneAbove(value, safe, distress) ==
    IF value > safe THEN "SAFE"
    ELSE IF value < distress THEN "DISTRESS"
    ELSE "GREY ZONE"

\* for PD the safe side is the low one
ZoneBelow(value, safe, distress) ==
    IF value < safe THEN "SAFE"
    ELSE IF value > distress THEN "DISTRESS"
    ELSE "GREY ZONE"

\* the weighted sum of the ratios before rounding, as the fraction
\* num / den of 10^-4 units with den > 0
FullPrecisionScore(d, v) ==
    LET ta  == d.total_assets
        tl  == d.total_liabilities
        num == IF v = "Z"
               THEN 100 * ( 120 * d.working_capital * tl
                          + 140 * d.retained_earnings * tl
                          + 330 * d.ebit * tl
                          + 60 * d.market_cap * ta
                          + 100 * d.sales * tl )
               ELSE 100 * ( 656 * d.working_capital * tl
                          + 326 * d.retained_earnings * tl
                          + 672 * d.ebit * tl
                          + 105 * d.market_cap * ta )
    IN  [ num |-> IF ta * tl < 0 THEN -num ELSE num, den |-> Abs(ta * tl) ]

SafeThreshold == IF classifier.model_version = "Z" THEN 29900 ELSE 26000

DistressThreshold == IF classifier.model_version = "Z" THEN 18100 ELSE 11000

\* the unrounded score lies strictly beyond a threshold
BeyondThreshold ==
    LET f == FullPrecisionScore(z_data, classifier.model_version)
    IN  \/ f.num > SafeThreshold * f.den
        \/ f.num < DistressThreshold * f.den

\* C21: the zones are decided on the reported values: the Z-Score zone is
\* the zone the variant's thresholds assign to z_score rounded to 4
\* decimals, the Merton zone the zone assigned to PD rounded to 6 decimals,
\* so the reported zone agrees with the reported number; an unrounded score
\* strictly beyond a threshold that rounds onto it is GREY ZONE.
C21_ZonesOnReported ==
    /\ z_dec # None =>
           /\ z_dec.zone = ZoneAbove(z_results.z_score, SafeThreshold,
                                     DistressThreshold)
           /\ z_dec.reasoning.value = z_results.z_score
           /\ (BeyondThreshold
                 /\ z_results.z_score \in {SafeThreshold, DistressThreshold})
                  => z_dec.zone = "GREY ZONE"
    /\ merton_dec # None =>
           /\ merton_dec.zone = ZoneBelow(merton_results.PD, 20000, 50000)
           /\ merton_dec.reasoning.value = merton_results.PD
    /\ pc = "returned" =>
           LET r == self.results
           IN  /\ r.zscore.decision.zone =
                      ZoneAbove(r.zscore.ratios.z_score, SafeThreshold,
                                DistressThreshold)
               /\ r.merton.applicable =>
                      r.merton.decision.zone =
                          ZoneBelow(r.merton.results.PD, 20000, 50000)

\* a result whose unrounded Z''-Score 2.60004 is reported as 2.6000 and
\* zoned GREY ZONE
C21_Witness ==
    /\ pc = "returned"
    /\ BeyondThreshold
    /\ self.results.zscore.ratios.z_score = 26000
    /\ self.results.zscore.model_version = "Z_double_prime"
    /\ self.results.zscore.decision.zone = "GREY ZONE"
    /\ self.results.merton.applicable

\* both models named in the basis
BothBasis(r) ==
    r.final_decision.basis =
        <<"Z-Score: ", r.zscore.decision.decision,
          " | Merton: ", r.merton.decision.decision>>

\* a result of run() is well-formed with respect to Merton
MertonWellFormed(r) ==
    /\ r.merton.applicable \in BOOLEAN
    /\ r.merton.applicable <=> r.merton.results # None
    /\ r.merton.applicable <=> r.merton.decision # None
    /\ IF r.merton.applicable
       THEN BothBasis(r)
       ELSE r.final_decision.basis \in ZScoreOnlyBasis

\* the analysis of the current ticker failed in a Merton stage
MertonStageFailed ==
    /\ Failed
    /\ merton_applicable
    /\ z_dec # None

\* C22: every result of run() has merton.results and merton.decision
\* present iff merton.applicable, and a basis naming both models iff
\* merton.applicable.  When Merton is applicable and a Merton stage fails
\* (download, short history, sigma = 0, D <= 0) the analysis ends as an
\* error: nothing is stored or returned, the Z-Score decision already
\* computed is dropped, and no Z-Score-only decision takes its place.
C22_MertonWellFormed ==
    /\ pc = "returned" =>
           /\ MertonWellFormed(self.results)
           /\ self.results.merton.applicable <=>
                  z_data.total_liabilities > 0
    /\ \A i \in 1..Len(all_results) :
           \/ ErrorRecord(all_results[i])
           \/ MertonWellFormed(all_results[i])
    /\ MertonStageFailed =>
           /\ exc.type = "ValueError"
           /\ DOMAIN self.results = {}
           /\ "Reconciler" \notin Range(stages)
    /\ (pc = "loop" /\ Len(all_results) > 0 /\ merton_applicable
          /\ merton_dec = None) =>
           ErrorRecord(all_results[Len(all_results)])

\* a batch entry for a company whose Merton stage found sigma = 0: an error
\* record, although its Z-Score decision had been computed
C22_Witness ==
    /\ pc = "loop"
    /\ Len(all_results) > 0
    /\ merton_applicable
    /\ z_dec # None
    /\ merton_dec = None
    /\ all_results[Len(all_results)] =
           [ ticker |-> tickers[Len(all_results)],
             error  |-> <<"σ debe ser mayor que 0.">> ]

====
